---- MODULE Spec2Model ----
(***************************************************************************)
(* A model of the condition-string filter engine of akshare_mcp            *)
(* (src/utils.py): apply_filters_for_data_frame, _parse_condition_to_query *)
(* and the pandas operations they call (copy, to_numeric, query).          *)
(*                                                                         *)
(* Text is modelled character by character: a string is a sequence of      *)
(* characters and a character is a one-letter TLA+ string.  Three          *)
(* characters cannot be written inside a TLA+ string and are named:        *)
(* BT is the backtick, SQ the single quote, DQ the double quote; TAB is    *)
(* the tabulator; ALPHA is a letter that is neither ASCII nor CJK.          *)
(***************************************************************************)
EXTENDS Integers, Sequences, FiniteSets, TLC

BT == "BT"
SQ == "SQ"
DQ == "DQ"
TAB == "TAB"

\* a letter outside the ranges a-z, A-Z and \u4e00-\u9fa5, such as a Greek
\* or a Cyrillic one
ALPHA == "ALPHA"

\* ------------------------------------------------------------------------
\* Character classes of Python's re module
\* ------------------------------------------------------------------------

Lower == {"a","b","c","d","e","f","g","h","i","j","k","l","m",
          "n","o","p","q","r","s","t","u","v","w","x","y","z"}

Upper == {"A","B","C","D","E","F","G","H","I","J","K","L","M",
          "N","O","P","Q","R","S","T","U","V","W","X","Y","Z"}

Digit == {"0","1","2","3","4","5","6","7","8","9"}

\* \s
IsSpace(c) == c \in {" ", TAB}

\* \w: the patterns are str patterns, so \w matches every Unicode letter
IsWord(c) == c \in Lower \cup Upper \cup Digit \cup {"_", ALPHA}

\* the first character of column_pattern: [a-zA-Z_\u4e00-\u9fa5] (no CJK character is in the alphabet of the model)
IsIdentStart(c) == c \in Lower \cup Upper \cup {"_"}

\* the other characters of column_pattern: [\w\u4e00-\u9fa5\-%]
IsIdentCont(c) == IsWord(c) \/ c \in {"-", "%"}

\* the first character of a Python name
IsNameStart(c) == IsIdentStart(c) \/ c = ALPHA

\* the class of both quote characters
IsQuote(c) == c \in {SQ, DQ}

\* ------------------------------------------------------------------------
\* str and re primitives
\* ------------------------------------------------------------------------

\* s[i:i+len(lit)] == lit
MatchAt(s, i, lit) ==
    /\ i >= 1
    /\ i + Len(lit) - 1 <= Len(s)
    /\ SubSeq(s, i, i + Len(lit) - 1) = lit

\* lit in s
Contains(s, lit) == \E i \in 1..(Len(s) + 1) : MatchAt(s, i, lit)

RECURSIVE ReplaceFrom(_, _, _, _)
ReplaceFrom(s, i, old, new) ==
    IF i > Len(s) THEN <<>>
    ELSE IF Len(old) > 0 /\ MatchAt(s, i, old)
         THEN new \o ReplaceFrom(s, i + Len(old), old, new)
         ELSE <<s[i]>> \o ReplaceFrom(s, i + 1, old, new)

\* s.replace(old, new), old not empty
Replace(s, old, new) == ReplaceFrom(s, 1, old, new)

\* s.strip()
Strip(s) ==
    IF \A i \in 1..Len(s) : IsSpace(s[i]) THEN <<>>
    ELSE LET a == CHOOSE i \in 1..Len(s) :
                    ~IsSpace(s[i]) /\ \A j \in 1..(i - 1) : IsSpace(s[j])
             b == CHOOSE i \in 1..Len(s) :
                    ~IsSpace(s[i]) /\ \A j \in (i + 1)..Len(s) : IsSpace(s[j])
         IN  SubSeq(s, a, b)

RECURSIVE CollapseFrom(_, _)
CollapseFrom(s, i) ==
    IF i > Len(s) THEN <<>>
    ELSE IF IsSpace(s[i])
         THEN IF i > 1 /\ IsSpace(s[i - 1])
              THEN CollapseFrom(s, i + 1)
              ELSE <<" ">> \o CollapseFrom(s, i + 1)
         ELSE <<s[i]>> \o CollapseFrom(s, i + 1)

\* re.sub(r"\s+", " ", condition.strip())
Normalize(s) == CollapseFrom(Strip(s), 1)

\* the lookarounds (?<!\w) (?!\w) (class "w") and (?<!\S) (?!\S) (class "S")
InClass(cls, c) == IF cls = "w" THEN IsWord(c) ELSE ~IsSpace(c)

\* (?<!cls) holds before position i, (?!cls) holds at position j
LookOK(s, i, j, cls) ==
    /\ (i > 1 => ~InClass(cls, s[i - 1]))
    /\ (j <= Len(s) => ~InClass(cls, s[j]))

RECURSIVE SubFrom(_, _, _, _, _)
SubFrom(s, i, lit, rep, cls) ==
    IF i > Len(s) THEN <<>>
    ELSE IF MatchAt(s, i, lit) /\ LookOK(s, i, i + Len(lit), cls)
         THEN rep \o SubFrom(s, i + Len(lit), lit, rep, cls)
         ELSE <<s[i]>> \o SubFrom(s, i + 1, lit, rep, cls)

\* re.sub(rf"(?<!C){lit}(?!C)", rep, s) for C = \w or \S; \blit\b is the
\* \w form when lit begins and ends with a word character
SubLit(s, lit, rep, cls) == SubFrom(s, 1, lit, rep, cls)

SeqToSet(q) == {q[k] : k \in DOMAIN q}

\* ------------------------------------------------------------------------
\* _parse_condition_to_query: validation of the referenced names
\* ------------------------------------------------------------------------

LOGIC_KEYWORDS ==
    { <<"A","N","D">>, <<"O","R">>, <<"N","O","T">>,
      <<"a","n","d">>, <<"o","r">>, <<"n","o","t">> }

RECURSIVE IdentEnd(_, _)
\* the index of the last character of the longest column_pattern match at i
IdentEnd(s, i) ==
    IF i < Len(s) /\ IsIdentCont(s[i + 1]) THEN IdentEnd(s, i + 1) ELSE i

RECURSIVE FindIdents(_, _)
\* re.findall(column_pattern, s), from position i on
FindIdents(s, i) ==
    IF i > Len(s) THEN <<>>
    ELSE IF IsIdentStart(s[i])
         THEN LET e == IdentEnd(s, i)
              IN  <<SubSeq(s, i, e)>> \o FindIdents(s, e + 1)
         ELSE FindIdents(s, i + 1)

\* columns = set(re.findall(column_pattern, condition)) - LOGIC_KEYWORDS
ReferencedColumns(cond) == SeqToSet(FindIdents(cond, 1)) \ LOGIC_KEYWORDS

\* the orders in which a Python set of strings can be iterated
Orders(S) ==
    { q \in [1..Cardinality(S) -> S] : \A a, b \in DOMAIN q : a /= b => q[a] /= q[b] }

\* invalid_cols = [col for col in columns if col not in valid_columns]
InvalidCols(order, valid) == SelectSeq(order, LAMBDA col : col \notin valid)

\* ------------------------------------------------------------------------
\* _parse_condition_to_query: quoting of the column names
\* ------------------------------------------------------------------------

Tick(col) == <<BT>> \o col \o <<BT>>

\* the smallest j > i with a quote at j, or 0
NextQuote(s, i) ==
    IF \E j \in (i + 1)..Len(s) : IsQuote(s[j])
    THEN CHOOSE j \in (i + 1)..Len(s) :
            IsQuote(s[j]) /\ \A k \in (i + 1)..(j - 1) : ~IsQuote(s[k])
    ELSE 0

RECURSIVE FindQuoted(_, _)
\* re.findall of (quote)(.*?)(quote) in s, from position i on
FindQuoted(s, i) ==
    IF i > Len(s) THEN <<>>
    ELSE IF IsQuote(s[i]) /\ NextQuote(s, i) > 0
         THEN LET j == NextQuote(s, i)
              IN  <<SubSeq(s, i + 1, j - 1)>> \o FindQuoted(s, j + 1)
         ELSE FindQuoted(s, i + 1)

RECURSIVE QuotedToTicks(_, _, _)
\* for col in quoted_columns: a quoted text that names a column becomes a
\* backticked column reference
QuotedToTicks(cond, quoted, valid) ==
    IF quoted = <<>> THEN cond
    ELSE LET col == Head(quoted)
             c1  == Replace(cond, <<SQ>> \o col \o <<SQ>>, Tick(col))
             c2  == Replace(c1, <<DQ>> \o col \o <<DQ>>, Tick(col))
         IN  QuotedToTicks(IF col \in valid THEN c2 ELSE cond, Tail(quoted), valid)

\* any(c in col for c in ["-", "%", " "])
HasSpecial(col) == \E k \in DOMAIN col : col[k] \in {"-", "%", " "}

RECURSIVE StripTicks(_)
\* col.strip(BT)
StripTicks(col) ==
    IF col /= <<>> /\ Head(col) = BT THEN StripTicks(Tail(col))
    ELSE IF col /= <<>> /\ col[Len(col)] = BT
         THEN StripTicks(SubSeq(col, 1, Len(col) - 1))
         ELSE col

\* what follows raw in (BT?raw BT?)(?!\w), e the position after raw: the
\* number of characters the optional backtick takes, -1 when there is no match
TrailLen(s, e) ==
    IF e <= Len(s) /\ s[e] = BT /\ (e + 1 <= Len(s) => ~IsWord(s[e + 1])) THEN 1
    ELSE IF e <= Len(s) => ~IsWord(s[e]) THEN 0
    ELSE -1

\* the length of the match of (?<!\w)(BT?raw BT?)(?!\w) at i, 0 when none
SpecialLen(s, i, raw) ==
    IF i > 1 /\ IsWord(s[i - 1]) THEN 0
    ELSE IF s[i] = BT /\ MatchAt(s, i + 1, raw)
            /\ TrailLen(s, i + 1 + Len(raw)) >= 0
         THEN 1 + Len(raw) + TrailLen(s, i + 1 + Len(raw))
    ELSE IF MatchAt(s, i, raw) /\ TrailLen(s, i + Len(raw)) >= 0
         THEN Len(raw) + TrailLen(s, i + Len(raw))
    ELSE 0

RECURSIVE SubSpecialFrom(_, _, _)
SubSpecialFrom(s, i, raw) ==
    IF i > Len(s) THEN <<>>
    ELSE IF Len(raw) > 0 /\ SpecialLen(s, i, raw) > 0
         THEN Tick(raw) \o SubSpecialFrom(s, i + SpecialLen(s, i, raw), raw)
         ELSE <<s[i]>> \o SubSpecialFrom(s, i + 1, raw)

\* the body of "for col in columns" for one column
TickColumn(cond, col, valid) ==
    IF col \notin valid THEN cond
    ELSE IF HasSpecial(col)
         THEN SubSpecialFrom(cond, 1, StripTicks(col))
    ELSE IF /\ ~Contains(cond, Tick(col))
            /\ ~Contains(cond, <<SQ>> \o col \o <<SQ>>)
            /\ ~Contains(cond, <<DQ>> \o col \o <<DQ>>)
         THEN SubLit(cond, col, Tick(col), "w")
    ELSE cond

RECURSIVE TickColumns(_, _, _)
\* for col in columns, in the iteration order of the set
TickColumns(cond, order, valid) ==
    IF order = <<>> THEN cond
    ELSE TickColumns(TickColumn(cond, Head(order), valid), Tail(order), valid)

\* the smallest j > i with s[j] = c, or 0
NextChar(s, i, c) ==
    IF \E j \in (i + 1)..Len(s) : s[j] = c
    THEN CHOOSE j \in (i + 1)..Len(s) :
            s[j] = c /\ \A k \in (i + 1)..(j - 1) : s[k] /= c
    ELSE 0

RECURSIVE SingleToDouble(_, _)
\* line 160: re.sub of SQ(.*?)SQ by DQ \1 DQ, from position i on
SingleToDouble(s, i) ==
    IF i > Len(s) THEN <<>>
    ELSE IF s[i] = SQ /\ NextChar(s, i, SQ) > 0
         THEN LET j == NextChar(s, i, SQ)
              IN  <<DQ>> \o SubSeq(s, i + 1, j - 1) \o <<DQ>>
                    \o SingleToDouble(s, j + 1)
         ELSE <<s[i]>> \o SingleToDouble(s, i + 1)

\* ------------------------------------------------------------------------
\* _parse_condition_to_query: membership expressions (in_pattern, replace_in)
\* ------------------------------------------------------------------------

RECURSIVE SpacesEnd(_, _)
\* the position after the run of whitespace that starts at i
SpacesEnd(s, i) ==
    IF i <= Len(s) /\ IsSpace(s[i]) THEN SpacesEnd(s, i + 1) ELSE i

W_in == <<"i","n">>

W_not_in == <<"n","o","t"," ","i","n">>

NoMatch == [len |-> 0]

\* the operator of in_pattern at r: in, not in, or <<>> when neither is there
InOpAt(s, r) ==
    IF MatchAt(s, r, W_in) THEN W_in
    ELSE IF MatchAt(s, r, W_not_in) THEN W_not_in ELSE <<>>

\* the third group of in_pattern, (\[.*?\]): u is where it must begin, z is
\* the first closing bracket after u
InMatchList(s, i, q, op, u, z) ==
    IF z > 0
    THEN [len |-> z - i + 1, col |-> SubSeq(s, i, q - 1), op |-> op,
          values |-> SubSeq(s, u, z)]
    ELSE NoMatch

\* \s+ after the operator: t is the position after the operator, u the
\* position after the whitespace
InMatchSpaces(s, i, q, op, t, u) ==
    IF u > t /\ u <= Len(s) /\ s[u] = "["
    THEN InMatchList(s, i, q, op, u, NextChar(s, u, "]"))
    ELSE NoMatch

\* the second group of in_pattern, (in|not in), at r
InMatchOp(s, i, q, r, op) ==
    IF r > q /\ op /= <<>>
    THEN InMatchSpaces(s, i, q, op, r + Len(op), SpacesEnd(s, r + Len(op)))
    ELSE NoMatch

\* the optional closing backtick of the first group: e is the last character
\* of the name, q the position after the group
InMatchTick(s, i, q) == InMatchOp(s, i, q, SpacesEnd(s, q), InOpAt(s, SpacesEnd(s, q)))

\* the name of the first group begins at p
InMatchName(s, i, p) ==
    IF p <= Len(s) /\ IsIdentStart(s[p])
    THEN InMatchTick(s, i, IF IdentEnd(s, p) + 1 <= Len(s) /\ s[IdentEnd(s, p) + 1] = BT
                           THEN IdentEnd(s, p) + 2 ELSE IdentEnd(s, p) + 1)
    ELSE NoMatch

\* the match of in_pattern at i: [len |-> 0] when there is none, else the
\* length of the match and its three groups
InMatch(s, i) == InMatchName(s, i, IF s[i] = BT THEN i + 1 ELSE i)

RECURSIVE SplitOn(_, _)
\* s.split(c), as a sequence of texts
SplitOn(s, c) ==
    IF \E j \in 1..Len(s) : s[j] = c
    THEN LET j == NextChar(s, 0, c)
         IN  <<SubSeq(s, 1, j - 1)>> \o SplitOn(SubSeq(s, j + 1, Len(s)), c)
    ELSE <<s>>

AllDigits(s) == s /= <<>> /\ \A k \in DOMAIN s : s[k] \in Digit

RECURSIVE DropLeadingZeros(_)
DropLeadingZeros(s) ==
    IF Len(s) > 1 /\ Head(s) = "0" THEN DropLeadingZeros(Tail(s)) ELSE s

RECURSIVE DropTrailingZeros(_)
DropTrailingZeros(s) ==
    IF Len(s) > 1 /\ s[Len(s)] = "0"
    THEN DropTrailingZeros(SubSeq(s, 1, Len(s) - 1)) ELSE s

\* repr of a decimal literal with integer part ip and fraction fp
DecimalRepr(sign, ip, fp) ==
    IF (ip = <<>> \/ AllDigits(ip)) /\ (fp = <<>> \/ AllDigits(fp))
       /\ (ip /= <<>> \/ fp /= <<>>)
    THEN sign \o DropLeadingZeros(IF ip = <<>> THEN <<"0">> ELSE ip) \o <<".">>
              \o DropTrailingZeros(IF fp = <<>> THEN <<"0">> ELSE fp)
    ELSE <<>>

\* repr of a number literal body without its sign; dot is the position of
\* its decimal point, 0 when it has none
NumberRepr(sign, body, dot) ==
    IF dot = 0
    THEN IF AllDigits(body) /\ (Head(body) = "0" => \A k \in DOMAIN body : body[k] = "0")
         THEN sign \o DropLeadingZeros(body)
         ELSE <<>>
    ELSE DecimalRepr(sign, SubSeq(body, 1, dot - 1), SubSeq(body, dot + 1, Len(body)))

\* repr of a number literal with an optional sign
SignedRepr(sign, body) == NumberRepr(sign, body, NextChar(body, 0, "."))

\* repr(literal_eval(item)) of one stripped list element: an integer, a
\* decimal or a quoted text without quotes inside; <<>> for what literal_eval
\* rejects or what is outside this fragment of Python literals
StrippedRepr(item) ==
    IF Len(item) >= 2 /\ IsQuote(item[1]) /\ item[Len(item)] = item[1]
       /\ \A k \in 2..(Len(item) - 1) : ~IsQuote(item[k]) /\ item[k] /= BT
    THEN <<SQ>> \o SubSeq(item, 2, Len(item) - 1) \o <<SQ>>
    ELSE IF item /= <<>> /\ Head(item) = "-"
    THEN SignedRepr(<<"-">>, Strip(Tail(item)))
    ELSE SignedRepr(<<>>, item)

ItemRepr(item) == StrippedRepr(Strip(item))

RECURSIVE JoinComma(_)
\* ", ".join(items)
JoinComma(items) ==
    IF items = <<>> THEN <<>>
    ELSE IF Len(items) = 1 THEN items[1]
    ELSE items[1] \o <<",", " ">> \o JoinComma(Tail(items))

\* a trailing comma is allowed in a list display
ListItems(parts) ==
    IF Len(parts) > 1 /\ Strip(parts[Len(parts)]) = <<>>
    THEN SubSeq(parts, 1, Len(parts) - 1) ELSE parts

\* str of a list given the repr of each of its elements
ReprsToList(reprs) ==
    IF \E k \in DOMAIN reprs : reprs[k] = <<>> THEN <<>>
    ELSE <<"[">> \o JoinComma(reprs) \o <<"]">>

ItemReprs(items) == [k \in DOMAIN items |-> ItemRepr(items[k])]

\* str of the list whose display has the text inner between its brackets
InnerRepr(inner) ==
    IF inner = <<>> THEN <<"[", "]">>
    ELSE ReprsToList(ItemReprs(ListItems(SplitOn(inner, ","))))

\* str(literal_eval(values)) for the bracketed text values; <<>> when
\* literal_eval raises or the value is no list
ListRepr(values) == InnerRepr(Strip(SubSeq(values, 2, Len(values) - 1)))

W_isin == <<".","i","s","i","n","(">>

\* the column name replace_in puts into the call, from the text c0 of group 1
InColumn(c0) ==
    IF HasSpecial(c0)
    THEN IF Head(c0) /= BT \/ c0[Len(c0)] /= BT THEN Tick(StripTicks(c0)) ELSE c0
    ELSE IF Head(c0) /= BT THEN Tick(c0) ELSE c0

\* the text replace_in returns for the list text vs; <<>> when vs is <<>>
IsinCall(op, col, vs) ==
    IF vs = <<>> THEN <<>>
    ELSE (IF op = W_in THEN <<>> ELSE <<"~">>) \o Tick(col) \o W_isin \o vs \o <<")">>

\* replace_in(match): the replacement text; <<>> when it raises ValueError
ReplaceIn(m) == IsinCall(m.op, InColumn(m.col), ListRepr(m.values))

\* a replacement in front of what re.sub makes of the rest of the text
Prepend(pre, rest) ==
    IF rest.ok THEN [ok |-> TRUE, text |-> pre \o rest.text] ELSE rest

RECURSIVE SubInFrom(_, _)

\* the match m of in_pattern at i is replaced by rep
SubInWith(s, i, m, rep) ==
    IF rep = <<>> THEN [ok |-> FALSE, values |-> m.values]
    ELSE Prepend(rep, SubInFrom(s, i + m.len))

SubInAt(s, i, m) ==
    IF m.len = 0 THEN Prepend(<<s[i]>>, SubInFrom(s, i + 1))
    ELSE SubInWith(s, i, m, ReplaceIn(m))

\* re.sub(in_pattern, replace_in, s), from position i on: the new text, or
\* the values text of the first membership expression replace_in rejects
SubInFrom(s, i) ==
    IF i > Len(s) THEN [ok |-> TRUE, text |-> <<>>]
    ELSE SubInAt(s, i, InMatch(s, i))

\* ------------------------------------------------------------------------
\* _parse_condition_to_query: connectives and operators
\* ------------------------------------------------------------------------

\* a variant of lines 197-199 in which AND is read as OR
LogicAsOr(s) ==
    SubLit(SubLit(SubLit(s, <<"A","N","D">>, <<"|">>, "w"),
                  <<"O","R">>, <<"|">>, "w"),
           <<"N","O","T">>, <<"~">>, "w")

\* lines 197-199
LogicToSymbols(s) ==
    SubLit(SubLit(SubLit(s, <<"A","N","D">>, <<"&">>, "w"),
                  <<"O","R">>, <<"|">>, "w"),
           <<"N","O","T">>, <<"~">>, "w")

W_contains == <<"c","o","n","t","a","i","n","s">>

W_str_contains == <<".","s","t","r",".">> \o W_contains \o <<"(">>

\* operator_patterns: the pattern between (?<!\S) and (?!\S), and the
\* replacement, in the order of the list
operator_patterns ==
    << << <<"!","=">>, <<"!","=">> >>,
       << <<"=">>, <<"=","=">> >>,
       << <<">">>, <<">">> >>,
       << <<"<">>, <<"<">> >>,
       << <<">","=">>, <<">","=">> >>,
       << <<"<","=">>, <<"<","=">> >>,
       << W_in, W_isin >>,
       << W_not_in, <<".","n","o","t","i","n","(">> >>,
       << W_contains, W_str_contains >>,
       << <<"n","o","t"," ">> \o W_contains, W_str_contains >> >>

RECURSIVE ApplyOperators(_, _)
\* for pattern, replacement in operator_patterns: re.sub(...)
ApplyOperators(s, pats) ==
    IF pats = <<>> THEN s
    ELSE ApplyOperators(SubLit(s, Head(pats)[1], Head(pats)[2], "S"), Tail(pats))

\* lines 116-160 for the normalised condition c0: the names are quoted
QuoteNames(c0, order, valid) ==
    SingleToDouble(TickColumns(QuotedToTicks(c0, FindQuoted(c0, 1), valid), order, valid), 1)

\* lines 197-207 for the condition after the membership step
Operators(s) == ApplyOperators(LogicToSymbols(s), operator_patterns)

\* the text of the condition before the membership step (lines 101-160)
BeforeIn(cond, order, valid) == QuoteNames(Normalize(cond), order, valid)

\* the transformed condition that is handed to the dry run (lines 101-207),
\* when no step before it raises
Transform(cond, order, valid) ==
    Operators(SubInFrom(BeforeIn(cond, order, valid), 1).text)

\* ------------------------------------------------------------------------
\* Data: cells, columns and frames (pandas.DataFrame)
\*
\* A cell is a text [t |-> "str", s |-> characters], a number
\* [t |-> "int" or "float", n |-> hundredths] or a truth value
\* [t |-> "bool", b |-> ...].  Numbers are kept in hundredths, so that the
\* decimals of the conditions (0.15) and of the data (0.2) are exact.
\* A frame is [columns, dtypes, index, rows]: the column names, the dtype of
\* each column, the row labels and, for each row, its cells in column order.
\* ------------------------------------------------------------------------

StrCell(s) == [t |-> "str", s |-> s]

IntCell(k) == [t |-> "int", n |-> 100 * k]

FloatCell(hundredths) == [t |-> "float", n |-> hundredths]

BoolCell(b) == [t |-> "bool", b |-> b]

IsNum(c) == c.t \in {"int", "float"}

DigitVal(c) ==
    CHOOSE k \in 0..9 : <<"0","1","2","3","4","5","6","7","8","9">>[k + 1] = c

RECURSIVE DigitsVal(_)
\* int(s) for a text of digits, 0 for the empty text
DigitsVal(s) ==
    IF s = <<>> THEN 0
    ELSE 10 * DigitsVal(SubSeq(s, 1, Len(s) - 1)) + DigitVal(s[Len(s)])

\* the number a text denotes: digits with an optional sign and an optional
\* fraction of at most two digits
ParseNum(s) ==
    LET neg  == s /= <<>> /\ Head(s) = "-"
        body == IF neg THEN Tail(s) ELSE s
        dot  == NextChar(body, 0, ".")
        ip   == IF dot > 0 THEN SubSeq(body, 1, dot - 1) ELSE body
        fp   == IF dot > 0 THEN SubSeq(body, dot + 1, Len(body)) ELSE <<>>
        ok   == /\ AllDigits(ip)
                /\ (dot > 0 => AllDigits(fp) /\ Len(fp) <= 2)
        frac == IF Len(fp) = 1 THEN 10 * DigitsVal(fp) ELSE DigitsVal(fp)
    IN  IF ok
        THEN [ok |-> TRUE, isint |-> dot = 0,
              n |-> (IF neg THEN -1 ELSE 1) * (100 * DigitsVal(ip) + frac)]
        ELSE [ok |-> FALSE]

\* the cells of column k of frame f
Column(f, k) == [r \in DOMAIN f.rows |-> f.rows[r][k]]

\* the position of column name in f, 0 when f has no such column
ColIndex(f, name) ==
    IF \E k \in DOMAIN f.columns : f.columns[k] = name
    THEN CHOOSE k \in DOMAIN f.columns : f.columns[k] = name
    ELSE 0

\* a variant of to_numeric that converts cell by cell: every text that is a
\* number is replaced, the others stay
to_numeric_each(cells) ==
    [r \in DOMAIN cells |->
        IF cells[r].t = "str" /\ ParseNum(cells[r].s).ok
        THEN [t |-> IF ParseNum(cells[r].s).isint THEN "int" ELSE "float",
              n |-> ParseNum(cells[r].s).n]
        ELSE cells[r]]

\* pd.to_numeric(cells, errors="ignore") for the cells of an object column
\* that holds texts: every text parsed, or the input as it is when one of
\* them is not a number
to_numeric(cells) ==
    LET parsed == [r \in DOMAIN cells |-> ParseNum(cells[r].s)]
        allint == \A r \in DOMAIN cells : parsed[r].isint
    IN  IF \A r \in DOMAIN cells : cells[r].t = "str" /\ parsed[r].ok
        THEN [r \in DOMAIN cells |->
                [t |-> IF allint THEN "int" ELSE "float", n |-> parsed[r].n]]
        ELSE cells

\* the dtype pandas gives a column of these cells
DtypeOf(cells) ==
    IF \A r \in DOMAIN cells : cells[r].t = "int" THEN "int64"
    ELSE IF \A r \in DOMAIN cells : IsNum(cells[r]) THEN "float64"
    ELSE "object"

\* df[col] = value, for column k
SetColumn(f, k, cells) ==
    [f EXCEPT !.dtypes[k] = DtypeOf(cells),
              !.rows = [r \in DOMAIN f.rows |-> [f.rows[r] EXCEPT ![k] = cells[r]]]]

\* lines 66-71 for column k: an object column is replaced by to_numeric of it
CoerceColumn(f, k) ==
    IF f.dtypes[k] = "object" THEN SetColumn(f, k, to_numeric(Column(f, k))) ELSE f

\* pd.DataFrame(columns=list(valid_columns)): no rows, object columns
EmptyFrame(columns) ==
    [columns |-> columns, dtypes |-> [k \in DOMAIN columns |-> "object"],
     index |-> <<>>, rows |-> <<>>]

\* ------------------------------------------------------------------------
\* DataFrame.query: the tokens of the expression
\*
\* A token is a name, a number, a text, an operator, "bad" (no Python token:
\* the expression is a SyntaxError) or "other" (a token of Python that this
\* model of the expression language does not cover).
\* ------------------------------------------------------------------------

NameTok(s) == [k |-> "name", s |-> s]

OpTok(o) == [k |-> "op", o |-> o]

BadTok == [k |-> "bad"]

OtherTok == [k |-> "other"]

\* the dot of an attribute: the name after it is an attribute, not a variable
DotTok == [k |-> "other", dot |-> TRUE]

IsOp(tok, o) == tok.k = "op" /\ tok.o = o

RECURSIVE RunEnd(_, _, _)
\* the index of the last character of the run of word characters (cls "w")
\* or digits (cls "d") that starts at i; i - 1 when the run is empty
RunEnd(s, i, cls) ==
    IF i <= Len(s) /\ (IF cls = "w" THEN IsWord(s[i]) ELSE s[i] \in Digit)
    THEN RunEnd(s, i + 1, cls) ELSE i - 1

\* the token of a Python name: the keywords of boolean expressions are
\* operators, a name in backticks is always a column name
WordTok(w) ==
    IF w = <<"a","n","d">> THEN OpTok("and")
    ELSE IF w = <<"o","r">> THEN OpTok("or")
    ELSE IF w = <<"n","o","t">> THEN OpTok("not")
    ELSE IF w \in { <<"i","n">>, <<"i","s">>, <<"i","f">>, <<"e","l","s","e">>,
                    <<"T","r","u","e">>, <<"F","a","l","s","e">>,
                    <<"N","o","n","e">>, <<"l","a","m","b","d","a">>,
                    <<"f","o","r">> }
         THEN OtherTok
    ELSE NameTok(w)

\* the operator a character, or a pair of characters, is; pandas reads & as
\* and, | as or
TwoCharOps == { <<"=","=">>, <<"!","=">>, <<">","=">>, <<"<","=">> }

OneCharOp(c) ==
    IF c = "&" THEN OpTok("and")
    ELSE IF c = "|" THEN OpTok("or")
    ELSE IF c \in {">", "<", "=", "(", ")", "~", "-"} THEN OpTok(c)
    ELSE IF c = "!" THEN BadTok
    ELSE IF c = "." THEN DotTok
    ELSE OtherTok

RECURSIVE Tokenize(_, _)
Tokenize(s, i) ==
    IF i > Len(s) THEN <<>>
    ELSE IF IsSpace(s[i]) THEN Tokenize(s, i + 1)
    ELSE IF s[i] = BT
         THEN LET j == NextChar(s, i, BT)
              IN  IF j = 0 THEN <<BadTok>>
                  ELSE <<NameTok(SubSeq(s, i + 1, j - 1))>> \o Tokenize(s, j + 1)
    ELSE IF IsQuote(s[i])
         THEN LET j == NextChar(s, i, s[i])
              IN  IF j = 0 THEN <<BadTok>>
                  ELSE <<[k |-> "str", s |-> SubSeq(s, i + 1, j - 1)]>>
                         \o Tokenize(s, j + 1)
    ELSE IF s[i] \in Digit
         THEN LET e1 == RunEnd(s, i, "d")
                  e2 == IF e1 < Len(s) /\ s[e1 + 1] = "."
                        THEN RunEnd(s, e1 + 2, "d") ELSE e1
                  txt == SubSeq(s, i, e2)
                  num == ParseNum(txt)
              IN  IF ~num.ok THEN <<OtherTok>>
                  ELSE IF num.isint /\ Len(txt) > 1 /\ txt[1] = "0" /\ num.n /= 0
                  THEN <<BadTok>>
                  ELSE <<[k |-> "num", n |-> num.n, isint |-> num.isint]>>
                         \o Tokenize(s, e2 + 1)
    ELSE IF IsNameStart(s[i])
         THEN LET e == RunEnd(s, i, "w")
              IN  <<WordTok(SubSeq(s, i, e))>> \o Tokenize(s, e + 1)
    ELSE IF i < Len(s) /\ SubSeq(s, i, i + 1) \in TwoCharOps
         THEN <<OpTok(IF s[i] = "=" THEN "==" ELSE IF s[i] = "!" THEN "!="
                      ELSE IF s[i] = ">" THEN ">=" ELSE "<=")>>
                \o Tokenize(s, i + 2)
    ELSE <<OneCharOp(s[i])>> \o Tokenize(s, i + 1)

\* ------------------------------------------------------------------------
\* DataFrame.query: the syntax of the expression (Python's grammar of
\* boolean expressions, comparisons and unary operators)
\*
\* A parse is [ok |-> TRUE, node, pos] or [ok |-> FALSE, why], why being
\* "syntax" (Python raises SyntaxError) or "other" (outside this model).
\* ------------------------------------------------------------------------

Fail(why) == [ok |-> FALSE, why |-> why]

Parsed(node, pos) == [ok |-> TRUE, node |-> node, pos |-> pos]

CmpOps == {"==", "!=", ">", "<", ">=", "<="}

IsCmpTok(ts, p) == p <= Len(ts) /\ ts[p].k = "op" /\ ts[p].o \in CmpOps

RECURSIVE ParseOr(_, _)
RECURSIVE ParseOrRest(_, _)
RECURSIVE ParseAnd(_, _)
RECURSIVE ParseAndRest(_, _)
RECURSIVE ParseNot(_, _)
RECURSIVE ParseUnary(_, _)

\* why the token at p cannot follow a complete expression: an operand, a
\* closing parenthesis, ~ or a not that is not part of "not in" is a
\* SyntaxError; anything else may continue the expression in a way that is
\* outside this model
LeftoverWhy(ts, p) ==
    IF \/ ts[p].k \in {"name", "num", "str"}
       \/ IsOp(ts[p], ")")
       \/ IsOp(ts[p], "~")
       \/ IsOp(ts[p], "not") /\ ~(p < Len(ts) /\ ts[p + 1].k = "other")
    THEN "syntax" ELSE "other"

\* the closing parenthesis after the parse r of what follows the opening one
CloseParen(ts, r) ==
    IF ~r.ok THEN r
    ELSE IF r.pos <= Len(ts) /\ IsOp(ts[r.pos], ")") THEN Parsed(r.node, r.pos + 1)
    ELSE IF r.pos <= Len(ts) THEN Fail(LeftoverWhy(ts, r.pos))
    ELSE Fail("syntax")

\* the number the token tok denotes, negated when sign is -1
NumConst(tok, sign) ==
    [op |-> "const", c |-> [t |-> IF tok.isint THEN "int" ELSE "float", n |-> sign * tok.n]]

\* atom: a name, a number, a text or a parenthesised expression
ParseAtom(ts, p) ==
    IF p > Len(ts) THEN Fail("syntax")
    ELSE IF ts[p].k = "name" THEN Parsed([op |-> "name", s |-> ts[p].s], p + 1)
    ELSE IF ts[p].k = "num" THEN Parsed(NumConst(ts[p], 1), p + 1)
    ELSE IF ts[p].k = "str" THEN Parsed([op |-> "const", c |-> StrCell(ts[p].s)], p + 1)
    ELSE IF ts[p].k = "other" THEN Fail("other")
    ELSE IF IsOp(ts[p], "(") THEN CloseParen(ts, ParseOr(ts, p + 1))
    ELSE Fail("syntax")

\* the inversion of the parse r of the operand
Inverted(r) == IF r.ok THEN Parsed([op |-> "invert", x |-> r.node], r.pos) ELSE r

\* unary: ~ x, - number
ParseUnary(ts, p) ==
    IF p <= Len(ts) /\ IsOp(ts[p], "~") THEN Inverted(ParseUnary(ts, p + 1))
    ELSE IF p <= Len(ts) /\ IsOp(ts[p], "-")
    THEN IF p < Len(ts) /\ ts[p + 1].k = "num"
         THEN Parsed(NumConst(ts[p + 1], -1), p + 2)
         ELSE Fail("other")
    ELSE ParseAtom(ts, p)

\* the difference of the parses l and r of its two sides
SubJoin(ts, l, r) ==
    IF ~r.ok THEN r
    ELSE IF r.pos <= Len(ts) /\ IsOp(ts[r.pos], "-") THEN Fail("other")
    ELSE Parsed([op |-> "sub", l |-> l.node, r |-> r.node], r.pos)

\* what follows the parse l of the left side of a difference
SubRest(ts, l) ==
    IF ~l.ok THEN l
    ELSE IF l.pos <= Len(ts) /\ IsOp(ts[l.pos], "-")
    THEN SubJoin(ts, l, ParseUnary(ts, l.pos + 1))
    ELSE l

\* arithmetic: unary (- unary)?
ParseArith(ts, p) == SubRest(ts, ParseUnary(ts, p))

\* the comparison of the parses l and r of its two sides
CmpJoin(ts, l, r) ==
    IF ~r.ok THEN r
    ELSE IF IsCmpTok(ts, r.pos) THEN Fail("other")
    ELSE Parsed([op |-> "cmp", o |-> ts[l.pos].o, l |-> l.node, r |-> r.node], r.pos)

\* what follows the parse l of the left side of a comparison
CmpRest(ts, l) ==
    IF ~l.ok THEN l
    ELSE IF ~IsCmpTok(ts, l.pos) THEN l
    ELSE CmpJoin(ts, l, ParseArith(ts, l.pos + 1))

\* comparison: arithmetic (op arithmetic)?
ParseCmp(ts, p) == CmpRest(ts, ParseArith(ts, p))

\* not_test: not not_test | comparison
ParseNot(ts, p) ==
    IF p <= Len(ts) /\ IsOp(ts[p], "not") THEN Inverted(ParseNot(ts, p + 1))
    ELSE ParseCmp(ts, p)

\* the conjunction or disjunction op of the parses l and r
BoolJoin(op, l, r) ==
    IF r.ok THEN Parsed([op |-> op, l |-> l.node, r |-> r.node], r.pos) ELSE r

ParseAndRest(ts, l) ==
    IF l.ok /\ l.pos <= Len(ts) /\ IsOp(ts[l.pos], "and")
    THEN ParseAndRest(ts, BoolJoin("and", l, ParseNot(ts, l.pos + 1)))
    ELSE l

\* and_test: not_test (and not_test)*
ParseAnd(ts, p) == ParseAndRest(ts, ParseNot(ts, p))

ParseOrRest(ts, l) ==
    IF l.ok /\ l.pos <= Len(ts) /\ IsOp(ts[l.pos], "or")
    THEN ParseOrRest(ts, BoolJoin("or", l, ParseAnd(ts, l.pos + 1)))
    ELSE l

\* or_test: and_test (or and_test)*
ParseOr(ts, p) == ParseOrRest(ts, ParseAnd(ts, p))

\* name = expression at the head of the tokens
IsAssign(ts) == Len(ts) >= 2 /\ ts[1].k = "name" /\ IsOp(ts[2], "=")

\* the end of the expression after the parse r
EndOfExpr(ts, r) ==
    IF ~r.ok THEN r
    ELSE IF r.pos <= Len(ts) THEN Fail(LeftoverWhy(ts, r.pos))
    ELSE IF IsAssign(ts) THEN Fail("assign")
    ELSE r

\* the whole expression: [ok |-> TRUE, node] or [ok |-> FALSE, why], why
\* also "empty" (query refuses an empty expression) and "assign" (name =
\* expression parses, and query has no target to assign to)
ParseExpr(ts) ==
    IF ts = <<>> THEN Fail("empty")
    ELSE IF \E k \in DOMAIN ts : ts[k].k = "bad" THEN Fail("syntax")
    ELSE EndOfExpr(ts, ParseOr(ts, IF IsAssign(ts) THEN 3 ELSE 1))

\* ------------------------------------------------------------------------
\* DataFrame.query: evaluation
\*
\* A value is a column of cells [k |-> "ser", bool, v] (bool: its dtype is
\* bool), one cell [k |-> "sca", v], an exception [k |-> "err", e] or
\* [k |-> "other"] (outside this model).
\* ------------------------------------------------------------------------

\* the characters in the order of their code points
CharOrder ==
    <<" ", "!", DQ, "%", "&", SQ, "(", ")", "*", "+", ",", "-", ".", "/",
      "0","1","2","3","4","5","6","7","8","9", "<", "=", ">",
      "A","B","C","D","E","F","G","H","I","J","K","L","M",
      "N","O","P","Q","R","S","T","U","V","W","X","Y","Z", "[", "]", "_", BT,
      "a","b","c","d","e","f","g","h","i","j","k","l","m",
      "n","o","p","q","r","s","t","u","v","w","x","y","z", "|", "~">>

Ord(c) == CHOOSE k \in DOMAIN CharOrder : CharOrder[k] = c

RECURSIVE StrLess(_, _)
\* a < b for two texts
StrLess(a, b) ==
    IF b = <<>> THEN FALSE
    ELSE IF a = <<>> THEN TRUE
    ELSE IF Head(a) = Head(b) THEN StrLess(Tail(a), Tail(b))
    ELSE Ord(Head(a)) < Ord(Head(b))

\* a op b for two numbers or two texts given a < b and a = b
Holds(o, less, equal) ==
    IF o = "==" THEN equal
    ELSE IF o = "!=" THEN ~equal
    ELSE IF o = "<" THEN less
    ELSE IF o = "<=" THEN less \/ equal
    ELSE IF o = ">" THEN ~less /\ ~equal
    ELSE ~less

\* a op b for two cells: a truth value, the cell "TypeError" when Python
\* cannot order a text and a number, the cell "other" for truth values
CmpCells(o, a, b) ==
    IF IsNum(a) /\ IsNum(b) THEN BoolCell(Holds(o, a.n < b.n, a.n = b.n))
    ELSE IF a.t = "str" /\ b.t = "str" THEN BoolCell(Holds(o, StrLess(a.s, b.s), a.s = b.s))
    ELSE IF a.t = "bool" \/ b.t = "bool" THEN [t |-> "other"]
    ELSE IF o = "==" THEN BoolCell(FALSE)
    ELSE IF o = "!=" THEN BoolCell(TRUE)
    ELSE [t |-> "TypeError"]

\* ~a for a cell
\* a - b
SubCells(a, b) ==
    IF IsNum(a) /\ IsNum(b)
    THEN [t |-> IF a.t = "int" /\ b.t = "int" THEN "int" ELSE "float", n |-> a.n - b.n]
    ELSE [t |-> "other"]

InvertCell(a) ==
    IF a.t = "bool" THEN BoolCell(~a.b)
    ELSE IF a.t = "int" THEN [t |-> "int", n |-> 0 - a.n - 100]
    ELSE [t |-> "TypeError"]

Ser(bool, v) == [k |-> "ser", bool |-> bool, v |-> v]

Err(e) == [k |-> "err", e |-> e]

Other == [k |-> "other"]

\* the value of a column of results, one of which may be an exception
Collect(bool, cells) ==
    IF \E r \in DOMAIN cells : cells[r].t = "TypeError" THEN Err("TypeError")
    ELSE IF \E r \in DOMAIN cells : cells[r].t = "other" THEN Other
    ELSE Ser(bool, cells)

\* the cell of value x in row r
At(x, r) == IF x.k = "ser" THEN x.v[r] ELSE x.v

RECURSIVE Eval(_, _)
Eval(node, f) ==
    IF node.op = "name"
    THEN IF ColIndex(f, node.s) = 0 THEN Err("UndefinedVariableError")
         ELSE Ser(FALSE, Column(f, ColIndex(f, node.s)))
    ELSE IF node.op = "const" THEN [k |-> "sca", v |-> node.c]
    ELSE IF node.op = "invert"
    THEN LET x == Eval(node.x, f)
         IN  IF x.k \in {"err", "other"} THEN x
             ELSE IF x.k = "sca" THEN Other
             ELSE Collect(x.bool, [r \in DOMAIN x.v |-> InvertCell(x.v[r])])
    ELSE LET l == Eval(node.l, f)
             r == Eval(node.r, f)
         IN  IF l.k = "err" THEN l
             ELSE IF r.k = "err" THEN r
             ELSE IF l.k = "other" \/ r.k = "other" THEN Other
             ELSE IF l.k = "sca" /\ r.k = "sca" THEN Other
             ELSE IF node.op = "cmp"
             THEN Collect(TRUE, [i \in DOMAIN f.rows |->
                                   CmpCells(node.o, At(l, i), At(r, i))])
             ELSE IF node.op = "sub"
             THEN Collect(FALSE, [i \in DOMAIN f.rows |->
                                    SubCells(At(l, i), At(r, i))])
             ELSE IF l.k = "ser" /\ r.k = "ser" /\ l.bool /\ r.bool
             THEN Ser(TRUE, [i \in DOMAIN f.rows |->
                               BoolCell(IF node.op = "and"
                                        THEN l.v[i].b /\ r.v[i].b
                                        ELSE l.v[i].b \/ r.v[i].b)])
             ELSE Other

\* the rows of f at the positions ps, in that order
TakeRows(f, ps) ==
    [f EXCEPT !.index = [k \in DOMAIN ps |-> f.index[ps[k]]],
              !.rows = [k \in DOMAIN ps |-> f.rows[ps[k]]]]

RECURSIVE TruePositions(_, _)
\* the positions r >= i with v[r] true, ascending
TruePositions(v, i) ==
    IF i > Len(v) THEN <<>>
    ELSE (IF v[i].b THEN <<i>> ELSE <<>>) \o TruePositions(v, i + 1)

\* the position of label in the index of f, 0 when it is no label of f
LabelPos(f, cell) ==
    IF cell.t = "int" /\ \E k \in DOMAIN f.index : 100 * f.index[k] = cell.n
    THEN CHOOSE k \in DOMAIN f.index : 100 * f.index[k] = cell.n
    ELSE 0

\* self.loc[res]: a column of truth values is a mask; any other column is a
\* list of row labels, each of which must be a label of the index
Loc(f, res) ==
    IF res.bool THEN [k |-> "ok", frame |-> TakeRows(f, TruePositions(res.v, 1))]
    ELSE IF \E r \in DOMAIN res.v : res.v[r].t = "float" /\ res.v[r].n % 100 = 0
         THEN Other
    ELSE IF \E r \in DOMAIN res.v : LabelPos(f, res.v[r]) = 0 THEN Err("KeyError")
    ELSE [k |-> "ok", frame |-> TakeRows(f, [r \in DOMAIN res.v |-> LabelPos(f, res.v[r])])]

\* the rows query returns for the value res of the expression
Located(f, res) ==
    IF res.k \in {"err", "other"} THEN res
    ELSE IF res.k = "sca" THEN Err("KeyError")
    ELSE Loc(f, res)

\* what query does with the parse p of the expression
Evaluated(f, p) ==
    IF ~p.ok
    THEN IF p.why = "other" THEN Other
         ELSE Err(IF p.why = "syntax" THEN "SyntaxError" ELSE "ValueError")
    ELSE Located(f, Eval(p.node, f))

\* f.query(expr): [k |-> "ok", frame], [k |-> "err", e] or [k |-> "other"]
Query(f, expr) == Evaluated(f, ParseExpr(Tokenize(expr, 1)))

\* ------------------------------------------------------------------------
\* The calls that are checked: datasets and condition strings
\* ------------------------------------------------------------------------

\* the largest number of rows of a dataset
MaxRows == 3

W_pe == <<"p","e">>

W_roe == <<"r","o","e">>

W_code == <<"c","o","d","e">>

W_name == <<"n","a","m","e">>

Texts(row) == [k \in DOMAIN row |-> StrCell(row[k])]

\* a frame with a RangeIndex, cut to MaxRows rows
MakeFrame(columns, dtypes, rows) ==
    LET n == IF Len(rows) < MaxRows THEN Len(rows) ELSE MaxRows
    IN  [columns |-> columns, dtypes |-> dtypes,
         index |-> [r \in 1..n |-> r - 1], rows |-> SubSeq(rows, 1, n)]

\* pe and roe as the provider delivers them, as text
FrameText ==
    MakeFrame(<<W_pe, W_roe>>, <<"object", "object">>,
              << Texts(<< <<"2","5">>, <<"0",".","2">> >>),
                 Texts(<< <<"1","5">>, <<"0",".","3">> >>),
                 Texts(<< <<"2","0">>, <<"0",".","1","5">> >>),
                 Texts(<< <<"3","0">>, <<"0",".","1">> >>) >>)

\* the same values in numeric columns
FrameNum ==
    MakeFrame(<<W_pe, W_roe>>, <<"int64", "float64">>,
              << <<IntCell(25), FloatCell(20)>>, <<IntCell(15), FloatCell(30)>>,
                 <<IntCell(20), FloatCell(15)>>, <<IntCell(30), FloatCell(10)>> >>)

\* stock codes, names of which some are numbers, and a small integer column
FrameCodes ==
    MakeFrame(<<W_code, W_name, W_pe>>, <<"object", "object", "object">>,
              << Texts(<< <<"6","0","0","0","0","0">>, <<"a","b","c">>, <<"1">> >>),
                 Texts(<< <<"0","0","0","0","0","1">>, <<"1","2">>, <<"0">> >>),
                 Texts(<< <<"6","0","1","3","1","8">>, <<"a","b","d">>, <<"2">> >>),
                 Texts(<< <<"0","0","0","0","0","2">>, <<"x","a","b">>, <<"3">> >>) >>)

\* no rows
FrameEmpty == MakeFrame(<<W_pe, W_roe>>, <<"object", "object">>, <<>>)

\* a dataset with a column that is named like the membership operator
FrameIn ==
    MakeFrame(<<W_code, W_in>>, <<"object", "int64">>,
              << <<StrCell(<<"1">>), IntCell(5)>>, <<StrCell(<<"2">>), IntCell(1)>>,
                 <<StrCell(<<"3">>), IntCell(3)>>, <<StrCell(<<"4">>), IntCell(0)>> >>)

\* no rows, text columns for codes and names
FrameNoRows == MakeFrame(<<W_code, W_name>>, <<"object", "object">>, <<>>)

\* a column a and a column a-b
FrameHyphen ==
    MakeFrame(<< <<"a">>, <<"a","-","b">> >>, <<"int64", "int64">>,
              << <<IntCell(1), IntCell(3)>>, <<IntCell(5), IntCell(0)>> >>)

Frames ==
    {FrameText, FrameNum, FrameCodes, FrameEmpty, FrameIn, FrameNoRows, FrameHyphen}

\* A call passes a condition: None, or a text.  Beside the text, an input
\* records how the condition was written: its kind, whether it is written in
\* the documented grammar, the columns it refers to and the parts of it.
Input(text, kind, grammar, refs, args) ==
    [none |-> FALSE, text |-> text, kind |-> kind, grammar |-> grammar,
     refs |-> refs, args |-> args]

CondNone ==
    [none |-> TRUE, text |-> <<>>, kind |-> "none", grammar |-> FALSE,
     refs |-> {}, args |-> <<>>]

CondEmpty == Input(<<>>, "empty", FALSE, {}, <<>>)

CompareOps == { <<">">>, <<"<">>, <<">","=">>, <<"<","=">>, <<"=">>, <<"!","=">> }

\* a op1 x AND b op2 y
Two(a, o1, x, b, o2, y) ==
    Input(a \o <<" ">> \o o1 \o <<" ">> \o x \o <<" ","A","N","D"," ">>
            \o b \o <<" ">> \o o2 \o <<" ">> \o y,
          "two", TRUE, {a, b}, <<a, o1, x, b, o2, y>>)

\* the thresholds of the two comparisons: 20 and 0.15, 15 and 0.3
Thresholds ==
    { << <<"2","0">>, <<"0",".","1","5">> >>, << <<"1","5">>, <<"0",".","3">> >> }

TwoConds ==
    { Two(W_pe, o1, xy[1], W_roe, o2, xy[2]) :
        o1 \in CompareOps, o2 \in CompareOps, xy \in Thresholds }

\* code in [ SQ 600000 SQ , SQ 601318 SQ ]
CondIn ==
    Input(<<"c","o","d","e"," ","i","n"," ","[","SQ","6","0","0","0","0","0","SQ",",","SQ","6","0","1","3","1","8","SQ","]">>,
          "in", TRUE, {<<"c","o","d","e">>}, <<<<"c","o","d","e">>, <<"6","0","0","0","0","0">>, <<"6","0","1","3","1","8">>>>)

\* code not in [ SQ 600000 SQ , SQ 601318 SQ ]
CondNotIn ==
    Input(<<"c","o","d","e"," ","n","o","t"," ","i","n"," ","[","SQ","6","0","0","0","0","0","SQ",",","SQ","6","0","1","3","1","8","SQ","]">>,
          "notin", TRUE, {<<"c","o","d","e">>}, <<<<"c","o","d","e">>, <<"6","0","0","0","0","0">>, <<"6","0","1","3","1","8">>>>)

\* name contains  SQ ab SQ 
CondContains ==
    Input(<<"n","a","m","e"," ","c","o","n","t","a","i","n","s"," ","SQ","a","b","SQ">>,
          "contains", TRUE, {<<"n","a","m","e">>}, <<<<"n","a","m","e">>, <<"a","b">>>>)

\* name not contains  SQ ab SQ 
CondNotContains ==
    Input(<<"n","a","m","e"," ","n","o","t"," ","c","o","n","t","a","i","n","s"," ","SQ","a","b","SQ">>,
          "notcontains", TRUE, {<<"n","a","m","e">>}, <<<<"n","a","m","e">>, <<"a","b">>>>)

\* foo > 1
CondFoo ==
    Input(<<"f","o","o"," ",">"," ","1">>,
          "plain", TRUE, {<<"f","o","o">>}, <<>>)

\* foo > 1 AND name =  SQ abc SQ 
CondFooLit ==
    Input(<<"f","o","o"," ",">"," ","1"," ","A","N","D"," ","n","a","m","e"," ","="," ","SQ","a","b","c","SQ">>,
          "literal", TRUE, {<<"f","o","o">>, <<"n","a","m","e">>}, <<<<"n","a","m","e">>, <<"a","b","c">>>>)

\* name =  SQ abc SQ 
CondLit ==
    Input(<<"n","a","m","e"," ","="," ","SQ","a","b","c","SQ">>,
          "literal", TRUE, {<<"n","a","m","e">>}, <<<<"n","a","m","e">>, <<"a","b","c">>>>)

\* name =  DQ abd DQ 
CondLitDq ==
    Input(<<"n","a","m","e"," ","="," ","DQ","a","b","d","DQ">>,
          "literal", TRUE, {<<"n","a","m","e">>}, <<<<"n","a","m","e">>, <<"a","b","d">>>>)

\* name =  SQ pe SQ 
CondLitCol ==
    Input(<<"n","a","m","e"," ","="," ","SQ","p","e","SQ">>,
          "literal", TRUE, {<<"n","a","m","e">>}, <<<<"n","a","m","e">>, <<"p","e">>>>)

\* code =  SQ 600000 SQ 
CondLitNum ==
    Input(<<"c","o","d","e"," ","="," ","SQ","6","0","0","0","0","0","SQ">>,
          "literal", TRUE, {<<"c","o","d","e">>}, <<<<"c","o","d","e">>, <<"6","0","0","0","0","0">>>>)

\* pe
CondBare ==
    Input(<<"p","e">>,
          "bare", FALSE, {<<"p","e">>}, <<>>)

\* NOT pe > 20
CondNot ==
    Input(<<"N","O","T"," ","p","e"," ",">"," ","2","0">>,
          "plain", TRUE, {<<"p","e">>}, <<>>)

\* not pe > 20
CondNotLower ==
    Input(<<"n","o","t"," ","p","e"," ",">"," ","2","0">>,
          "plain", FALSE, {<<"p","e">>}, <<>>)

\* pe > 20 and roe > 0.1
CondLower ==
    Input(<<"p","e"," ",">"," ","2","0"," ","a","n","d"," ","r","o","e"," ",">"," ","0",".","1">>,
          "plain", FALSE, {<<"p","e">>, <<"r","o","e">>}, <<>>)

\* pe > 20 And roe > 0.1
CondMixed ==
    Input(<<"p","e"," ",">"," ","2","0"," ","A","n","d"," ","r","o","e"," ",">"," ","0",".","1">>,
          "plain", FALSE, {<<"p","e">>, <<"r","o","e">>}, <<>>)

\* (pe > 20 OR pe < 10) AND roe > 0.15
CondParen ==
    Input(<<"(","p","e"," ",">"," ","2","0"," ","O","R"," ","p","e"," ","<"," ","1","0",")"," ","A","N","D"," ","r","o","e"," ",">"," ","0",".","1","5">>,
          "plain", TRUE, {<<"p","e">>, <<"r","o","e">>}, <<>>)

\* pe=20
CondNoSpace ==
    Input(<<"p","e","=","2","0">>,
          "plain", FALSE, {<<"p","e">>}, <<>>)

\* pe >
CondDangling ==
    Input(<<"p","e"," ",">">>,
          "plain", FALSE, {<<"p","e">>}, <<>>)

\*  pe  TAB >  15 
CondSpaces ==
    Input(<<" ","p","e"," ","TAB",">"," "," ","1","5"," ">>,
          "plain", TRUE, {<<"p","e">>}, <<>>)

\* name > 20
CondTextOrder ==
    Input(<<"n","a","m","e"," ",">"," ","2","0">>,
          "plain", TRUE, {<<"n","a","m","e">>}, <<>>)

\* code in [1, 2.50] AND  BT in BT  > 2
CondInTicked ==
    Input(<<"c","o","d","e"," ","i","n"," ","[","1",","," ","2",".","5","0","]"," ","A","N","D"," ","BT","i","n","BT"," ",">"," ","2">>,
          "plain", FALSE, {<<"c","o","d","e">>, <<"i","n">>}, <<>>)

\* code in [ SQ in SQ ]
CondInBad ==
    Input(<<"c","o","d","e"," ","i","n"," ","[","SQ","i","n","SQ","]">>,
          "in", FALSE, {<<"c","o","d","e">>}, <<<<"c","o","d","e">>, <<"i","n">>>>)

\* pe < 1 AND name != 12
CondNarrow ==
    Input(<<"p","e"," ","<"," ","1"," ","A","N","D"," ","n","a","m","e"," ","!","="," ","1","2">>,
          "plain", TRUE, {<<"p","e">>, <<"n","a","m","e">>}, <<>>)

\* ALPHA > 1
CondLetter ==
    Input(<<ALPHA," ",">"," ","1">>,
          "plain", FALSE, {<<ALPHA>>}, <<>>)

\* a-b > 1 AND a < 2
CondHyphen ==
    Input(<<"a","-","b"," ",">"," ","1"," ","A","N","D"," ","a"," ","<"," ","2">>,
          "plain", TRUE, {<<"a">>, <<"a","-","b">>}, <<>>)

OtherConds ==
    { CondNone, CondEmpty, CondNarrow, CondLetter, CondHyphen,
      CondIn, CondNotIn, CondContains, CondNotContains,
      CondFoo, CondFooLit, CondLit, CondLitDq,
      CondLitCol, CondLitNum, CondBare, CondNot, CondNotLower,
      CondLower, CondMixed, CondParen, CondNoSpace,
      CondDangling, CondSpaces, CondTextOrder, CondInTicked,
      CondInBad }

Conds == TwoConds \cup OtherConds

\* ------------------------------------------------------------------------
\* apply_filters_for_data_frame(df, condition), step by step
\* ------------------------------------------------------------------------

VARIABLES
    given,      \* the call: [frame, cond], as the caller made it
    frames,     \* the DataFrame objects that exist; frames[1] is the caller's
    df,         \* the object the local variable df is bound to
    pc,         \* the place of the call in the code
    col,        \* the column the coercion loop is at
    order,      \* the order in which the set columns is iterated
    text,       \* the local variable condition of _parse_condition_to_query
    outcome,    \* how the call ended: a returned object or a raised exception
    log,        \* the calls made so far
    prior,      \* the result of the call before this one, when the caller
                \* filters a result again
    peer        \* the result of the call another caller makes at the same
                \* time on the same DataFrame object, with no condition

\* The state of a call of __filter_abnormal_3delta or __calculate_percentile
VARIABLES
    fn,         \* the function that is called, "none" when neither is
    sgiven,     \* the rows of the caller's dataset: [date, v]
    window,     \* the parameter window
    sdf,        \* the rows the local variable df is bound to
    pct,        \* the column item_percentile, one cell for each row of sdf
    at,         \* the row the rolling computation is at
    spc         \* the place of the call in the code

statsVars == <<fn, sgiven, window, sdf, pct, at, spc>>

VARIABLES
    tool,       \* the function of the server that is called, "none" when none is
    retry,      \* get_single_stock_info: the parameter retry
    condition,  \* get_single_stock_info: the parameter condition, by its kind
    code,       \* _load_index_daily_with_fallback: the parameter code
    tried,      \* the attempts made so far, each with the way it ended
    last_err,   \* _load_index_daily_with_fallback: the local variable last_err
    tout,       \* how the call of the server function ended
    tpc         \* the place of the call in the code

toolVars == <<tool, retry, condition, code, tried, last_err, tout, tpc>>

vars == <<given, frames, df, pc, col, order, text, outcome, log, prior, peer,
          fn, sgiven, window, sdf, pct, at, spc,
          tool, retry, condition, code, tried, last_err, tout, tpc>>

\* no function of the server is called
ToolsIdle ==
    /\ tool = "none"
    /\ retry = 0
    /\ condition = "none"
    /\ code = <<>>
    /\ tried = <<>>
    /\ last_err = 0
    /\ tout = [k |-> "none"]
    /\ tpc = "idle"

\* neither of the two functions is called
StatsIdle ==
    /\ fn = "none"
    /\ sgiven = <<>>
    /\ window = 0
    /\ sdf = <<>>
    /\ pct = <<>>
    /\ at = 0
    /\ spc = "idle"

NoErr ==
    [what |-> "none", cols |-> <<>>, values |-> <<>>, original |-> <<>>,
     transformed |-> <<>>, cause |-> "none"]

Pending == [k |-> "none", obj |-> 0, type |-> "none", e |-> NoErr]

Return(obj) == [k |-> "return", obj |-> obj, type |-> "none", e |-> NoErr]

\* the type of the exception e as it is raised inside the try block: the
\* compiler raises ValueError, query raises what pandas raises
RaisedType(e) == IF e.what = "query" THEN e.cause ELSE "ValueError"

\* a variant of lines 77-78 that lets the exception leave as it is
Reraise(e) == [k |-> "raise", obj |-> 0, type |-> RaisedType(e), e |-> e]

\* lines 77-78: whatever is raised inside the try block leaves the function
\* as a ValueError whose message is a prefix and str(e)
Raise(e) == [k |-> "raise", obj |-> 0, type |-> "ValueError", e |-> e]

\* an expression outside the modelled part of the expression language
Unmodelled == [k |-> "unmodelled", obj |-> 0, type |-> "none", e |-> NoErr]

\* line 113: the message holds the list of invalid names
InvalidColumnsError(cols) == [NoErr EXCEPT !.what = "invalid_columns", !.cols = cols]

\* line 187: the message holds the text of the list
InvalidListError(values) == [NoErr EXCEPT !.what = "invalid_list", !.values = values]

\* lines 216-220: the message holds str(e), the original condition and the
\* transformed one
InvalidExpressionError(cause, original, transformed) ==
    [NoErr EXCEPT !.what = "invalid_expression", !.cause = cause,
                  !.original = original, !.transformed = transformed]

\* an exception of df.query at line 76
QueryError(cause) == [NoErr EXCEPT !.what = "query", !.cause = cause]

\* a variant of line 58 that tests for None alone
IsNone(c) == c.none

\* not condition
Falsy(c) == c.none \/ c.text = <<>>

\* a variant of df.copy() that hands out the object itself
CopyAlias(fs, id) == [frames |-> fs, id |-> id]

\* df.copy(): a new object with the same content; the objects and the new one
CopyOf(fs, id) == [frames |-> Append(fs, fs[id]), id |-> Len(fs) + 1]

\* set(valid_columns)
ValidColumns(f) == SeqToSet(f.columns)

\* no call was made before this one
NoPrior == [made |-> FALSE, index |-> <<>>, rows |-> <<>>]

\* no other caller has made its call
NoPeer == [made |-> FALSE, frame |-> <<>>, at |-> "none"]

Init ==
    /\ given \in [frame : Frames, cond : Conds]
    /\ frames = <<given.frame>>
    /\ df = 1
    /\ pc = "start"
    /\ col = 0
    /\ order = <<>>
    /\ text = <<>>
    /\ outcome = Pending
    /\ log = <<>>
    /\ prior = NoPrior
    /\ peer = NoPeer
    /\ StatsIdle
    /\ ToolsIdle

\* lines 58-59
ReturnCopy ==
    /\ pc = "start"
    /\ Falsy(given.cond)
    /\ frames' = CopyOf(frames, df).frames
    /\ outcome' = Return(CopyOf(frames, df).id)
    /\ pc' = "done"
    /\ log' = Append(log, "copy")
    /\ UNCHANGED <<toolVars, statsVars, prior, peer, given, df, col, order, text>>

\* line 62
CopyFrame ==
    /\ pc = "start"
    /\ ~Falsy(given.cond)
    /\ frames' = CopyOf(frames, df).frames
    /\ df' = CopyOf(frames, df).id
    /\ pc' = "coerce"
    /\ col' = 1
    /\ log' = Append(log, "copy")
    /\ UNCHANGED <<toolVars, statsVars, prior, peer, given, order, text, outcome>>

\* lines 65-71, one column
CoerceNext ==
    /\ pc = "coerce"
    /\ col <= Len(frames[df].columns)
    /\ frames' = [frames EXCEPT ![df] = CoerceColumn(@, col)]
    /\ col' = col + 1
    /\ log' = IF frames[df].dtypes[col] = "object" THEN Append(log, "to_numeric") ELSE log
    /\ UNCHANGED <<toolVars, statsVars, prior, peer, given, df, pc, order, text, outcome>>

\* the end of the loop of line 65, and the call of line 75
CoerceDone ==
    /\ pc = "coerce"
    /\ col > Len(frames[df].columns)
    /\ pc' = "validate"
    /\ text' = given.cond.text
    /\ log' = Append(log, "parse")
    /\ UNCHANGED <<toolVars, statsVars, prior, peer, given, frames, df, col, order, outcome>>

\* lines 101-113: the condition is normalised and its names are checked
\* against the columns
Validate ==
    /\ pc = "validate"
    /\ text' = Normalize(text)
    /\ \E o \in Orders(ReferencedColumns(Normalize(text))) :
         /\ order' = o
         /\ IF InvalidCols(o, ValidColumns(frames[df])) /= <<>>
            THEN /\ outcome' = Raise(InvalidColumnsError(InvalidCols(o, ValidColumns(frames[df]))))
                 /\ pc' = "done"
            ELSE /\ outcome' = outcome
                 /\ pc' = "quote"
    /\ UNCHANGED <<toolVars, statsVars, prior, peer, given, frames, df, col, log>>

\* lines 116-160: the column names are put into backticks, the quotes of the
\* literals become double quotes
QuoteColumns ==
    /\ pc = "quote"
    /\ text' = QuoteNames(text, order, ValidColumns(frames[df]))
    /\ pc' = "membership"
    /\ UNCHANGED <<toolVars, statsVars, prior, peer, given, frames, df, col, order, outcome, log>>

\* lines 163-194: the membership expressions are rewritten
Membership ==
    /\ pc = "membership"
    /\ LET r == SubInFrom(text, 1)
       IN  IF r.ok
           THEN /\ text' = r.text
                /\ pc' = "operators"
                /\ outcome' = outcome
           ELSE /\ text' = text
                /\ pc' = "done"
                /\ outcome' = Raise(InvalidListError(r.values))
    /\ UNCHANGED <<toolVars, statsVars, prior, peer, given, frames, df, col, order, log>>

\* lines 197-207: the connectives and the operators are rewritten
Rewrite ==
    /\ pc = "operators"
    /\ text' = Operators(text)
    /\ pc' = "dryrun"
    /\ UNCHANGED <<toolVars, statsVars, prior, peer, given, frames, df, col, order, outcome, log>>

\* lines 210-222: the dry run on an empty frame with the same columns
DryRun ==
    /\ pc = "dryrun"
    /\ LET q == Query(EmptyFrame(frames[df].columns), text)
       IN  IF q.k = "ok"
           THEN /\ pc' = "query"
                /\ outcome' = outcome
           ELSE /\ pc' = "done"
                /\ outcome' = IF q.k = "other" THEN Unmodelled
                               ELSE Raise(InvalidExpressionError(q.e, given.cond.text, text))
    /\ UNCHANGED <<toolVars, statsVars, prior, peer, given, frames, df, col, order, text, log>>

\* line 76
RunQuery ==
    /\ pc = "query"
    /\ LET q == Query(frames[df], text)
       IN  IF q.k = "ok"
           THEN /\ frames' = Append(frames, q.frame)
                /\ outcome' = Return(Len(frames) + 1)
           ELSE /\ frames' = frames
                /\ outcome' = IF q.k = "other" THEN Unmodelled ELSE Raise(QueryError(q.e))
    /\ pc' = "done"
    /\ log' = Append(log, "query")
    /\ UNCHANGED <<toolVars, statsVars, prior, peer, given, df, col, order, text>>

\* the caller passes the DataFrame a call returned to a second call, with the
\* same condition
FilterAgain ==
    /\ pc = "done"
    /\ outcome.k = "return"
    /\ ~prior.made
    /\ prior' = [made |-> TRUE, index |-> frames[outcome.obj].index,
                 rows |-> frames[outcome.obj].rows]
    /\ given' = [frame |-> frames[outcome.obj], cond |-> given.cond]
    /\ frames' = <<frames[outcome.obj]>>
    /\ df' = 1
    /\ pc' = "start"
    /\ col' = 0
    /\ order' = <<>>
    /\ text' = <<>>
    /\ outcome' = Pending
    /\ log' = <<>>
    /\ UNCHANGED <<toolVars, statsVars, peer>>

Next ==
    \/ FilterAgain
    \/ ReturnCopy
    \/ CopyFrame
    \/ CoerceNext
    \/ CoerceDone
    \/ Validate
    \/ QuoteColumns
    \/ Membership
    \/ Rewrite
    \/ DryRun
    \/ RunQuery

Spec == Init /\ [][Next]_vars

\* every call that is checked stays inside the modelled part of pandas
Modelled == outcome.k /= "unmodelled"

\* ------------------------------------------------------------------------
\* Properties of apply_filters_for_data_frame
\* ------------------------------------------------------------------------

Finished == pc = "done"

Returned == outcome.k = "return"

\* the returned DataFrame
Result == frames[outcome.obj]

\* the condition is a text that is not empty
NonEmptyCond == ~given.cond.none /\ given.cond.text /= <<>>

\* every column the condition refers to is a column of the dataset
ColumnsKnown == given.cond.refs \subseteq SeqToSet(given.frame.columns)

\* _parse_condition_to_query raised
CompileFailed ==
    outcome.k = "raise"
    /\ outcome.e.what \in {"invalid_columns", "invalid_list", "invalid_expression"}

\* the labels a are labels of b, in the relative order they have in b
InOrderOf(a, b) ==
    /\ \A i \in DOMAIN a : \E k \in DOMAIN b : b[k] = a[i]
    /\ \A i, j \in DOMAIN a :
         i < j => \E k, l \in DOMAIN b : k < l /\ b[k] = a[i] /\ b[l] = a[j]

\* the positions of the rows of the caller's dataset
Positions == [r \in DOMAIN given.frame.rows |-> r]

\* the returned DataFrame holds the rows of the caller's dataset at the
\* positions ps, with their labels and their cells
ResultIsRows(ps) ==
    /\ Returned
    /\ Result.index = [k \in DOMAIN ps |-> given.frame.index[ps[k]]]
    /\ Result.rows = [k \in DOMAIN ps |-> given.frame.rows[ps[k]]]

\* the labels of the returned DataFrame are those of the rows at ps
ResultIsLabels(ps) ==
    /\ Returned
    /\ Result.index = [k \in DOMAIN ps |-> given.frame.index[ps[k]]]

\* the cell of the caller's dataset in row r and the column called name
Cell(r, name) == given.frame.rows[r][ColIndex(given.frame, name)]

\* C1: a non-empty condition that compiles returns only rows of the
\* dataset: every returned row label is a row label of the dataset, in the
\* relative order of the dataset, so no more rows than the dataset has.
C1_RowsOfDataset ==
    (Finished /\ NonEmptyCond /\ Returned)
        => /\ InOrderOf(Result.index, given.frame.index)
           /\ Len(Result.index) <= Len(given.frame.index)

\* C2: a condition of the documented grammar whose column references are
\* all columns of the dataset compiles: _parse_condition_to_query raises no
\* error.
C2_GrammarCompiles ==
    (Finished /\ given.cond.grammar /\ ColumnsKnown) => ~CompileFailed

\* C3: a condition that refers to a name that is no column fails at the
\* validation of the columns, and the error lists exactly the referenced
\* columns that are absent: no operator word, keyword or literal content.
C3_ExactlyTheAbsentColumns ==
    (Finished /\ NonEmptyCond /\ ~ColumnsKnown)
        => /\ outcome.k = "raise"
           /\ outcome.e.what = "invalid_columns"
           /\ SeqToSet(outcome.e.cols)
                = given.cond.refs \ SeqToSet(given.frame.columns)

\* the number a threshold of the conditions denotes, in hundredths
ThresholdValue(x) ==
    IF x = <<"2","0">> THEN 2000
    ELSE IF x = <<"1","5">> THEN 1500
    ELSE IF x = <<"0",".","1","5">> THEN 15
    ELSE 30

\* a o b for the comparison operator o as the condition language writes it
Compares(o, a, b) ==
    IF o = <<">">> THEN a > b
    ELSE IF o = <<"<">> THEN a < b
    ELSE IF o = <<">","=">> THEN a >= b
    ELSE IF o = <<"<","=">> THEN a <= b
    ELSE IF o = <<"=">> THEN a = b
    ELSE a /= b

\* both comparisons of the condition a op1 x AND b op2 y hold in row r
BothHold(r) ==
    LET c == given.cond.args
    IN  /\ Compares(c[2], Cell(r, c[1]).n, ThresholdValue(c[3]))
        /\ Compares(c[5], Cell(r, c[4]).n, ThresholdValue(c[6]))

\* the columns the condition refers to are numeric columns of the dataset
NumericColumns ==
    \A name \in given.cond.refs :
        /\ ColIndex(given.frame, name) > 0
        /\ given.frame.dtypes[ColIndex(given.frame, name)] \in {"int64", "float64"}

Listed(r) ==
    Cell(r, given.cond.args[1]).s \in {given.cond.args[2], given.cond.args[3]}

\* row r is a row the membership condition asks for
Wanted(r) == IF given.cond.kind = "in" THEN Listed(r) ELSE ~Listed(r)

\* C5: col in [v1, ..., vn] on an existing column returns exactly the rows
\* whose value is listed, col not in [...] exactly the other rows.
C5_Membership ==
    (Finished /\ given.cond.kind \in {"in", "notin"} /\ given.cond.grammar /\ ColumnsKnown)
        => ResultIsLabels(SelectSeq(Positions, Wanted))

\* the text of row r in the column of the condition contains the literal
HasSubstring(r) == Contains(Cell(r, given.cond.args[1]).s, given.cond.args[2])

\* C6: col contains s on an existing text column keeps exactly the rows
\* whose value contains s, and col not contains s is that same test.
C6_Substring ==
    (Finished /\ given.cond.kind \in {"contains", "notcontains"} /\ ColumnsKnown)
        => ResultIsLabels(SelectSeq(Positions, HasSubstring))

\* C7: the content of a quoted literal is a string value: it is not checked
\* against the columns as if it were a column reference, and it is not
\* rewritten into a column reference.
C7_LiteralIsValue ==
    (Finished /\ given.cond.kind = "literal" /\ ColumnsKnown)
        => /\ ~(outcome.k = "raise" /\ outcome.e.what = "invalid_columns")
           /\ ~Contains(text, Tick(given.cond.args[2]))

\* C8: with an empty condition or None the call returns a copy of the
\* dataset with the same rows, columns and cells, a new object, and neither
\* coerces nor compiles nor queries: copy is the only call made.
C8_EmptyReturnsCopy ==
    (Finished /\ (given.cond.none \/ given.cond.text = <<>>))
        => /\ Returned
           /\ outcome.obj /= 1
           /\ Result = given.frame
           /\ log = <<"copy">>
           /\ text = <<>>
           /\ order = <<>>

\* C8: the call with the empty text on a dataset whose text columns hold
\* numbers has returned
C8_Example ==
    /\ Finished
    /\ given.cond = CondEmpty
    /\ given.frame = FrameText
    /\ Returned
    /\ Result.dtypes = <<"object", "object">>

\* C9: the caller's dataset is never mutated: in every state of a call,
\* and so after it returned or raised, it has the rows, cells and column
\* types it had before the call.
C9_CallerUnchanged == frames[1] = given.frame

\* C9: a call has raised after the coercion changed its own copy
C9_Example ==
    /\ Finished
    /\ outcome.k = "raise"
    /\ df /= 1
    /\ frames[df] /= given.frame
    /\ frames[df].rows /= given.frame.rows

\* column k of the working copy is column k of the caller's dataset
SameColumn(k) == Column(frames[df], k) = Column(given.frame, k)

\* every cell of column k of the working copy is the number that the text
\* of the caller's dataset in its place denotes
AllParsed(k) ==
    \A r \in DOMAIN given.frame.rows :
        /\ given.frame.rows[r][k].t = "str"
        /\ ParseNum(given.frame.rows[r][k].s).ok
        /\ IsNum(frames[df].rows[r][k])
        /\ frames[df].rows[r][k].n = ParseNum(given.frame.rows[r][k].s).n

\* C10: after the coercion step every text column is either numeric in
\* every cell, each the number its text denotes, or holds exactly its
\* original texts: no column mixes converted and unconverted values.
C10_AllOrNothing ==
    pc \notin {"start", "coerce"}
        => \A k \in DOMAIN given.frame.columns :
              given.frame.dtypes[k] = "object" => SameColumn(k) \/ AllParsed(k)

\* C10: the coercion is over for a dataset of which one text column became
\* numeric and another, which holds a number among its texts, stayed text
C10_Example ==
    /\ pc = "validate"
    /\ given.frame = FrameCodes
    /\ AllParsed(1) /\ ~SameColumn(1)
    /\ SameColumn(2)
    /\ \E r \in DOMAIN given.frame.rows : ParseNum(given.frame.rows[r][2].s).ok

\* C11: filtering is idempotent: when the DataFrame a call returned is
\* filtered again with the same condition, the second call returns the same
\* rows as the first.
C11_Idempotent ==
    (Finished /\ prior.made) => Returned /\ Result.index = prior.index

\* the call reached df.query at line 76
QueryRan == Len(log) > 0 /\ log[Len(log)] = "query"

\* C12: every failure of the compilation or of the evaluation reaches the
\* caller as a ValueError that carries the message of the underlying failure;
\* no other exception type leaves the call and a failed evaluation is never
\* a normal return.
C12_FailuresAreValueErrors ==
    (Finished /\ NonEmptyCond) =>
        /\ outcome.k \in {"return", "raise"}
        /\ outcome.k = "raise" =>
              /\ outcome.type = "ValueError"
              /\ outcome.e.what \in {"invalid_columns", "invalid_list",
                                     "invalid_expression", "query"}
        /\ (QueryRan /\ Query(frames[df], text).k = "err") =>
              /\ outcome.k = "raise"
              /\ outcome.e = QueryError(Query(frames[df], text).e)

\* name > 20 on a text column: pandas raises TypeError, the caller sees a
\* ValueError
C12_Example ==
    /\ Finished
    /\ QueryRan
    /\ outcome.k = "raise"
    /\ outcome.type = "ValueError"
    /\ outcome.e = QueryError("TypeError")

\* C13: every failure the compiler raises (invalid column, invalid list,
\* invalid expression) carries a message that holds both the original
\* condition and the transformed expression.
C13_MessagesCarryBoth ==
    (Finished /\ CompileFailed) =>
        /\ outcome.e.original = given.cond.text
        /\ outcome.e.transformed = text

\* the caller's dataset has columns and no rows
NoRows == given.frame.rows = <<>> /\ given.frame.columns /= <<>>

\* C14: filtering a dataset that has columns and no rows, with a condition of
\* the documented grammar that refers to columns of the dataset only, returns
\* a dataset without rows and raises nothing.
C14_EmptyDataset ==
    (Finished /\ NoRows /\ given.cond.grammar /\ ColumnsKnown) =>
        Returned /\ Result.rows = <<>>

\* the names the evaluator looks up in the expression of tokens ts: the
\* names that are not attributes (a pair of backticks with nothing between
\* them names nothing)
NamesOf(ts) ==
    { ts[i].s : i \in { j \in DOMAIN ts :
                          /\ ts[j].k = "name"
                          /\ ts[j].s /= <<>>
                          /\ (j > 1 => ts[j - 1] /= DotTok) } }

\* C15: the validation of the column names is a complete gate: every name
\* of the transformed expression that is handed to the evaluator, for the
\* dry run or for the query, is a column of the dataset.
C15_ValidationGate ==
    pc \in {"dryrun", "query"} =>
        NamesOf(Tokenize(text, 1)) \subseteq ValidColumns(frames[df])

\* C16: _parse_condition_to_query is a function of the condition and of the
\* column set: the names it reports as invalid and the expression it builds
\* do not depend on the order in which the set of the referenced names is
\* iterated.
C16_OrderIndependent ==
    /\ (Finished /\ outcome.k = "raise" /\ outcome.e.what = "invalid_columns") =>
          \A o \in Orders(SeqToSet(order)) :
              InvalidCols(o, ValidColumns(frames[df])) = outcome.e.cols
    /\ pc = "quote" =>
          \A o \in Orders(SeqToSet(order)) :
              QuoteNames(text, o, ValidColumns(frames[df]))
                  = QuoteNames(text, order, ValidColumns(frames[df]))

\* ------------------------------------------------------------------------
\* __filter_abnormal_3delta(df, column_name)
\*
\* A dataset is a sequence of rows [date, v]; v, the value of the column the
\* function works on, is a number n / d, NaN or an infinity.  The numbers of
\* the columns that are filtered are integers (d = 1) and the
\* comparisons with mean and std are made in exact arithmetic: with n the
\* number of values, S their sum and Q = n * (sum of squares) - S * S, the
\* mean is S / n and the square of std (ddof = 1) is Q / (n * (n - 1)).
\* ------------------------------------------------------------------------

\* the number n / d, d > 0
Frac(n, d) == [t |-> "num", n |-> n, d |-> d]

Num(n) == Frac(n, 1)

NaN == [t |-> "nan"]

Inf == [t |-> "inf"]

Row(date, v) == [date |-> date, v |-> v]

IsValue(r) == r.v.t = "num"

\* the rows mean and std work on: they skip the missing values
Valid(rows) == SelectSeq(rows, IsValue)

RECURSIVE Sum1(_)
\* the sum of the values
Sum1(rows) == IF rows = <<>> THEN 0 ELSE Head(rows).v.n + Sum1(Tail(rows))

RECURSIVE Sum2(_)
\* the sum of the squares of the values
Sum2(rows) == IF rows = <<>> THEN 0 ELSE Head(rows).v.n * Head(rows).v.n + Sum2(Tail(rows))

\* Q: n * n * (n - 1) times the square of std
Spread(valid) == Len(valid) * Sum2(valid) - Sum1(valid) * Sum1(valid)

\* n times the distance of x from the mean
Deviation(x, valid) == Len(valid) * x - Sum1(valid)

\* a variant of the rule with four standard deviations
FourSigmas == 2 + 2

\* the 3 of lines 261 and 262
Sigmas == 3

\* x > mean - 3 * std; std is NaN for fewer than two values, and every
\* comparison with NaN is false
AboveLower(x, valid) ==
    /\ Len(valid) >= 2
    /\ \/ Deviation(x, valid) > 0
       \/ Deviation(x, valid) * Deviation(x, valid) * (Len(valid) - 1)
             < Sigmas * Sigmas * Len(valid) * Spread(valid)

\* x < mean + 3 * std
BelowUpper(x, valid) ==
    /\ Len(valid) >= 2
    /\ \/ Deviation(x, valid) < 0
       \/ Deviation(x, valid) * Deviation(x, valid) * (Len(valid) - 1)
             < Sigmas * Sigmas * Len(valid) * Spread(valid)

\* line 263: the rows of the mask (df[c] > lower) & (df[c] < upper)
filter_abnormal_3delta(rows) ==
    LET valid == Valid(rows)
        InMask(r) == IsValue(r) /\ AboveLower(r.v.n, valid) /\ BelowUpper(r.v.n, valid)
    IN  SelectSeq(rows, InMask)

\* ------------------------------------------------------------------------
\* The calls that are checked: columns of values
\* ------------------------------------------------------------------------

\* the longest column of which every content is tried
MaxVals == 4

\* the longest run of equal values before one value far away
MaxRun == 10

Values == {Num(1), Num(2), Num(3), Num(1000), NaN}

\* the dataset with the values vs, dated 1, 2, ...
Dated(vs) == [i \in DOMAIN vs |-> Row(i, vs[i])]

\* k times the value x, then the value y
RunThen(k, x, y) == [i \in 1..(k + 1) |-> IF i <= k THEN Num(x) ELSE Num(y)]

OutlierColumns ==
    (UNION { [1..n -> Values] : n \in 0..MaxVals })
    \cup { RunThen(k, 1, 1000) : k \in 1..MaxRun }
    \cup { RunThen(k, 1000, 1) : k \in 1..MaxRun }

\* ------------------------------------------------------------------------
\* __calculate_percentile(df, item_col_name, window)
\* ------------------------------------------------------------------------

\* the default of the parameter window
DefaultWindow == 1260

\* min_periods of the rolling window
MinPeriods == 60

\* the least number of valid values safe_percentile works on
MinValid == 60

IsNumCell(c) == c.t = "num"

\* a >= b for two numbers
AtLeast(a, b) == a.n * b.d >= b.n * a.d

\* a > b for two numbers
Greater(a, b) == a.n * b.d > b.n * a.d

\* the function f over 1..n as a sequence
AsSeq(f) == SubSeq(f, 1, Len(f))

\* line 232: replace([np.inf, -np.inf], np.nan)
ReplaceInf(cells) ==
    AsSeq([i \in DOMAIN cells |-> IF cells[i].t = "inf" THEN NaN ELSE cells[i]])

\* the position of the last number before position i, 0 when there is none
LastBefore(cells, i) ==
    IF \E j \in 1..(i - 1) : IsNumCell(cells[j])
    THEN CHOOSE j \in 1..(i - 1) :
            IsNumCell(cells[j]) /\ \A k \in (j + 1)..(i - 1) : ~IsNumCell(cells[k])
    ELSE 0

\* the position of the first number after position i, 0 when there is none
FirstAfter(cells, i) ==
    IF \E j \in (i + 1)..Len(cells) : IsNumCell(cells[j])
    THEN CHOOSE j \in (i + 1)..Len(cells) :
            IsNumCell(cells[j]) /\ \A k \in (i + 1)..(j - 1) : ~IsNumCell(cells[k])
    ELSE 0

\* the point at x of the line through (x0, a) and (x1, b)
Between(a, b, x0, x1, x) ==
    Frac(a.n * b.d * (x1 - x0) + (b.n * a.d - a.n * b.d) * (x - x0),
         a.d * b.d * (x1 - x0))

\* the cell at position i of Series.interpolate over the abscissae xs: a
\* missing value between two numbers lies on the line between them, one
\* after the last number repeats it, one before the first number stays
InterpolatedAt(cells, xs, i, lo, hi) ==
    IF IsNumCell(cells[i]) THEN cells[i]
    ELSE IF lo = 0 THEN NaN
    ELSE IF hi = 0 THEN cells[lo]
    ELSE Between(cells[lo], cells[hi], xs[lo], xs[hi], xs[i])

\* Series.interpolate: method="time" with the dates as xs, method="linear"
\* with the positions as xs
Interpolate(cells, xs) ==
    AsSeq([i \in DOMAIN cells |->
        InterpolatedAt(cells, xs, i, LastBefore(cells, i), FirstAfter(cells, i))])

\* Series.ffill
Ffill(cells) ==
    AsSeq([i \in DOMAIN cells |->
        IF IsNumCell(cells[i]) \/ LastBefore(cells, i) = 0 THEN cells[i]
        ELSE cells[LastBefore(cells, i)]])

\* Series.bfill
Bfill(cells) ==
    AsSeq([i \in DOMAIN cells |->
        IF IsNumCell(cells[i]) \/ FirstAfter(cells, i) = 0 THEN cells[i]
        ELSE cells[FirstAfter(cells, i)]])

\* the values of the rows, the dates of the rows, the positions of the rows
ValuesOf(rows) == AsSeq([i \in DOMAIN rows |-> rows[i].v])

DatesOf(rows) == AsSeq([i \in DOMAIN rows |-> rows[i].date])

PositionsOf(cells) == AsSeq([i \in DOMAIN cells |-> i])

\* lines 232-233: the column without infinities, its gaps filled
Cleaned(rows) ==
    LET cells == Bfill(Ffill(Interpolate(ReplaceInf(ValuesOf(rows)), DatesOf(rows))))
    IN  [i \in DOMAIN rows |-> Row(rows[i].date, cells[i])]

\* lines 237-242, for the valid values of a window
PercentileOf(valid) ==
    IF Len(valid) < MinValid THEN NaN
    ELSE Frac(100 * Cardinality({ j \in 1..(Len(valid) - 1) :
                                    Greater(valid[Len(valid)], valid[j]) }),
              Len(valid) - 1)

\* safe_percentile(x)
safe_percentile(x) == PercentileOf(SelectSeq(x, IsNumCell))

\* a rolling percentile without the floor of 60 values
RollingNoFloor(x) ==
    IF Len(SelectSeq(x, IsNumCell)) < 2 THEN NaN
    ELSE Frac(100 * Cardinality({ j \in 1..(Len(SelectSeq(x, IsNumCell)) - 1) :
                    Greater(SelectSeq(x, IsNumCell)[Len(SelectSeq(x, IsNumCell))],
                            SelectSeq(x, IsNumCell)[j]) }),
              Len(SelectSeq(x, IsNumCell)) - 1)

\* the cell of rolling(window, min_periods=60).apply(safe_percentile) for
\* the window x that ends at a row
RollingCell(x) ==
    IF Len(SelectSeq(x, IsNumCell)) < MinPeriods THEN NaN ELSE safe_percentile(x)

\* the window of w rows that ends at row i
WindowAt(cells, i, w) == SubSeq(cells, IF i - w + 1 > 1 THEN i - w + 1 ELSE 1, i)

\* lines 252-254
PostFill(cells) == Bfill(Ffill(Interpolate(cells, PositionsOf(cells))))

\* ------------------------------------------------------------------------
\* The calls that are checked: columns for the percentile
\* ------------------------------------------------------------------------

\* the largest number of rows of a dataset
MaxLen == 61

\* the i-th date: ascending, with a gap after every third date
DateOf(i) == i + (i \div 3)

\* the value of row i where it is not missing
Base(i) == (i * 7) % 11

\* the rows are dated in ascending order, but for the shape reversed: its
\* rows are dated in descending order and none of its values is missing
Shapes == {"full", "nan_first", "nan_last", "nan_mid", "all_nan", "inf", "reversed"}

ShapedCell(shape, n, i) ==
    IF shape = "all_nan" THEN NaN
    ELSE IF shape = "nan_first" /\ i = 1 THEN NaN
    ELSE IF shape = "nan_last" /\ i = n THEN NaN
    ELSE IF shape = "nan_mid" /\ i \in {2, 3} THEN NaN
    ELSE IF shape = "inf" /\ i = 2 THEN Inf
    ELSE Num(Base(i))

Shaped(shape, n) ==
    [i \in 1..n |-> Row(DateOf(IF shape = "reversed" THEN n + 1 - i ELSE i),
                        ShapedCell(shape, n, i))]

PercentileColumns == { Shaped(shape, n) : shape \in Shapes, n \in 1..MaxLen }

\* the windows that are passed: the default and the smallest that rolling
\* accepts with min_periods = 60
Windows == {MinPeriods, DefaultWindow}

\* ------------------------------------------------------------------------
\* The two functions as steps
\* ------------------------------------------------------------------------

\* no call of apply_filters_for_data_frame is under way
CallIdle ==
    /\ given = [frame |-> FrameEmpty, cond |-> CondNone]
    /\ frames = <<FrameEmpty>>
    /\ df = 1
    /\ pc = "idle"
    /\ col = 0
    /\ order = <<>>
    /\ text = <<>>
    /\ outcome = Pending
    /\ log = <<>>
    /\ prior = NoPrior
    /\ peer = NoPeer

callVars == <<given, frames, df, pc, col, order, text, outcome, log, prior, peer>>

InitStats ==
    /\ CallIdle
    /\ ToolsIdle
    /\ \/ /\ fn = "3delta"
          /\ sgiven \in { Dated(vs) : vs \in OutlierColumns }
          /\ window = 0
       \/ /\ fn = "percentile"
          /\ sgiven \in PercentileColumns
          /\ window \in Windows
    /\ sdf = sgiven
    /\ pct = <<>>
    /\ at = 0
    /\ spc = "call"

\* lines 261-264
FilterAbnormal ==
    /\ fn = "3delta"
    /\ spc = "call"
    /\ sdf' = filter_abnormal_3delta(sdf)
    /\ spc' = "done"
    /\ UNCHANGED <<toolVars, callVars, fn, sgiven, window, pct, at>>

\* lines 227-233: the copy, the date index, the cleaned column
Prepare ==
    /\ fn = "percentile"
    /\ spc = "call"
    /\ sdf' = Cleaned(sdf)
    /\ at' = 1
    /\ spc' = "roll"
    /\ UNCHANGED <<toolVars, callVars, fn, sgiven, window, pct>>

\* lines 246-250, for the window that ends at row at
RollNext ==
    /\ spc = "roll"
    /\ at <= Len(sdf)
    /\ pct' = Append(pct, RollingCell(WindowAt(ValuesOf(sdf), at, window)))
    /\ at' = at + 1
    /\ UNCHANGED <<toolVars, callVars, fn, sgiven, window, sdf, spc>>

\* lines 246-250: the last window is done
RollEnd ==
    /\ spc = "roll"
    /\ at > Len(sdf)
    /\ spc' = "fill"
    /\ UNCHANGED <<toolVars, callVars, fn, sgiven, window, sdf, pct, at>>

\* lines 252-254
FillMissing ==
    /\ spc = "fill"
    /\ pct' = PostFill(pct)
    /\ spc' = "reset"
    /\ UNCHANGED <<toolVars, callVars, fn, sgiven, window, sdf, at>>

\* lines 256-257
ResetIndex ==
    /\ spc = "reset"
    /\ spc' = "done"
    /\ UNCHANGED <<toolVars, callVars, fn, sgiven, window, sdf, pct, at>>

NextStats ==
    \/ FilterAbnormal
    \/ Prepare
    \/ RollNext
    \/ RollEnd
    \/ FillMissing
    \/ ResetIndex

SpecStats == InitStats /\ [][NextStats]_vars

\* every cell of the statistics is a number n / d with d > 0, NaN or, before
\* the cleaning, an infinity
StatsTypeOK ==
    /\ \A i \in DOMAIN sdf : sdf[i].v.t \in {"num", "nan", "inf"}
    /\ \A i \in DOMAIN sdf : sdf[i].v.t = "num" => sdf[i].v.d > 0
    /\ \A i \in DOMAIN pct : pct[i].t \in {"num", "nan"}
    /\ \A i \in DOMAIN pct : pct[i].t = "num" => pct[i].d > 0

\* ------------------------------------------------------------------------
\* Properties of __filter_abnormal_3delta
\* ------------------------------------------------------------------------

Filtered == fn = "3delta" /\ spc = "done"

\* C17: for a numeric column whose standard deviation over all rows is
\* greater than 0, every retained row has a value strictly inside
\* (mean - 3 std, mean + 3 std), mean and std being those of the whole input
\* column: with n values of sum S and Q = n * (sum of squares) - S * S, the
\* value x is strictly inside exactly when
\* (n * x - S)^2 * (n - 1) < 9 * n * Q.
C17_RetainedInsideBounds ==
    (Filtered /\ Len(Valid(sgiven)) >= 2 /\ Spread(Valid(sgiven)) > 0) =>
        \A i \in DOMAIN sdf :
            /\ IsValue(sdf[i])
            /\ (Len(Valid(sgiven)) * sdf[i].v.n - Sum1(Valid(sgiven)))
                    * (Len(Valid(sgiven)) * sdf[i].v.n - Sum1(Valid(sgiven)))
                    * (Len(Valid(sgiven)) - 1)
                 < 9 * Len(Valid(sgiven)) * Spread(Valid(sgiven))

\* a column of ten times 1 and one 1000 is filtered: the 1000 is more than
\* three standard deviations above the mean and is dropped, the rest is kept
C17_Example ==
    /\ Filtered
    /\ sgiven = Dated(RunThen(10, 1, 1000))
    /\ sdf = SubSeq(sgiven, 1, 10)

\* C18: for a constant numeric column (std = 0, every finite value equal to
\* the mean) every row that has a finite value is retained.
C18_ConstantColumnKept ==
    (Filtered /\ Len(Valid(sgiven)) >= 2 /\ Spread(Valid(sgiven)) = 0) =>
        sdf = Valid(sgiven)

\* the rows other than row i
Without(rows, i) == SubSeq(rows, 1, i - 1) \o SubSeq(rows, i + 1, Len(rows))

\* the value of row i lies more than 3 standard deviations of the other
\* values from the mean of the other values
FarFromOthers(rows, i) ==
    /\ IsValue(rows[i])
    /\ Len(Valid(Without(rows, i))) >= 2
    /\ (Len(Valid(Without(rows, i))) * rows[i].v.n - Sum1(Valid(Without(rows, i))))
            * (Len(Valid(Without(rows, i))) * rows[i].v.n - Sum1(Valid(Without(rows, i))))
            * (Len(Valid(Without(rows, i))) - 1)
         > 9 * Len(Valid(Without(rows, i))) * Spread(Valid(Without(rows, i)))

\* C19: when one value of a column lies more than 3 standard deviations of
\* the other values from the mean of the other values, the filter drops that
\* value and retains the others; on the column 1, 2, 3, 1000 it drops 1000
\* and retains 1, 2 and 3.
C19_OutlierDropped ==
    Filtered =>
        \A i \in DOMAIN sgiven :
            (/\ FarFromOthers(sgiven, i)
             /\ \A j \in DOMAIN sgiven : j /= i => ~FarFromOthers(sgiven, j))
                => sdf = Valid(Without(sgiven, i))

\* ------------------------------------------------------------------------
\* Properties of __calculate_percentile
\* ------------------------------------------------------------------------

Ranked == fn = "percentile" /\ spc = "done"

\* C20: after the function has returned, the percentile column has no
\* missing value in any row, for every dataset that is not empty, whatever
\* its number of rows.
C20_NoMissingPercentile ==
    (Ranked /\ sgiven /= <<>>) => \A i \in DOMAIN pct : IsNumCell(pct[i])

\* the rolling computation is over: pct has one cell for each row
Rolled == fn = "percentile" /\ spc \in {"fill", "reset", "done"}

\* the first row of the trailing window of row i
WindowStart(i) == IF i - window + 1 > 1 THEN i - window + 1 ELSE 1

\* the rows of the window of row i that hold a value, row i included
Observed(i) == { j \in WindowStart(i)..i : sdf[j].v.t = "num" }

\* C21: for every row whose trailing window (at most W rows, ending at and
\* including the row) holds fewer than 60 valid observations, the percentile
\* computed before the post-fill step is missing.
C21_ShortWindowMissing ==
    (fn = "percentile" /\ spc = "fill") =>
        \A i \in DOMAIN pct : Cardinality(Observed(i)) < 60 => pct[i] = NaN

\* 61 rows under a window of 60 rows: before the fill, row 59 has no
\* percentile and rows 60 and 61 have one
C21_Example ==
    /\ fn = "percentile"
    /\ spc = "fill"
    /\ window = 60
    /\ Len(sgiven) = 61
    /\ Cardinality(Observed(59)) = 59
    /\ pct[59] = NaN
    /\ Cardinality(Observed(61)) = 60
    /\ pct[60].t = "num"
    /\ pct[61].t = "num"

\* C22: the output has as many rows as the input and, in every column of
\* the input (the target column included), the values of the input; the
\* only difference is the added percentile column.
C22_InputColumnsKept ==
    Ranked =>
        /\ Len(sdf) = Len(sgiven)
        /\ Len(pct) = Len(sgiven)
        /\ \A i \in DOMAIN sgiven : sdf[i] = sgiven[i]

\* the rows of the window of row i before row i that hold a value
Earlier(i) == Observed(i) \ {i}

\* the rows of Earlier(i) of which the value is less than the value of row i
Below(i) ==
    { j \in Earlier(i) : sdf[j].v.n * sdf[i].v.d < sdf[i].v.n * sdf[j].v.d }

\* C27: for every row whose window holds at least 60 valid observations the
\* percentile is 100 * (number of earlier observations in the window that
\* are strictly less than the value of the row) / (number of earlier
\* observations in the window), and so lies between 0 and 100.
C27_PercentileFormula ==
    Rolled =>
        \A i \in DOMAIN pct :
            Cardinality(Observed(i)) >= 60 =>
                /\ pct[i].t = "num"
                /\ pct[i].n * Cardinality(Earlier(i))
                      = 100 * Cardinality(Below(i)) * pct[i].d
                /\ pct[i].n >= 0
                /\ pct[i].n <= 100 * pct[i].d

\* a row with 60 earlier values in its window, of which some are less than
\* its own, some equal and some greater, has got its percentile
C27_Example ==
    /\ Rolled
    /\ window = DefaultWindow
    /\ Len(pct) = 61
    /\ Cardinality(Earlier(61)) = 60
    /\ Cardinality(Below(61)) > 0
    /\ \E j \in Earlier(61) : sdf[j].v = sdf[61].v
    /\ Cardinality(Below(61)) < 59
    /\ pct[61].t = "num"
    /\ pct[61].n * 60 = 100 * Cardinality(Below(61)) * pct[61].d

\* the rows in the order of their dates
ByDate(rows) ==
    AsSeq([k \in DOMAIN rows |->
        rows[CHOOSE i \in DOMAIN rows :
                Cardinality({ j \in DOMAIN rows : rows[j].date < rows[i].date }) = k - 1]])

\* lines 246-254 for the rows as they are given: the percentile column
Percentiles(rows, w) ==
    PostFill(AsSeq([i \in DOMAIN rows |-> RollingCell(WindowAt(ValuesOf(rows), i, w))]))

\* two cells of the percentile column are the same
SameCell(a, b) ==
    IF a.t = "num" /\ b.t = "num" THEN a.n * b.d = b.n * a.d ELSE a = b

\* C28: the rows are ranked in the order of their dates: the percentile of
\* every date is the one the function gives when the rows are passed in
\* date-ascending order, for every permutation of the rows.
C28_DateOrder ==
    Ranked =>
        LET sorted == ByDate(sgiven)
            ranks == Percentiles(Cleaned(sorted), window)
        IN  \A i \in DOMAIN sgiven : \A k \in DOMAIN sgiven :
                sorted[k].date = sgiven[i].date => SameCell(pct[i], ranks[k])

\* ------------------------------------------------------------------------
\* Properties of the connectives
\* ------------------------------------------------------------------------

\* pe > 20 does not hold in row r
NotAbove20(r) == ~(Cell(r, W_pe).n > ThresholdValue(<<"2","0">>))

\* C25: NOT c returns exactly the rows of the dataset for which c is false,
\* also for a comparison c without parentheses: NOT pe > 20 over a numeric
\* column pe returns the rows in which pe > 20 does not hold.
C25_NotNegatesComparison ==
    (Finished /\ given.cond = CondNot /\ NumericColumns)
        => ResultIsRows(SelectSeq(Positions, NotAbove20))

\* pe > 20 and roe > 0.1 hold in row r
AboveBoth(r) ==
    /\ Cell(r, W_pe).n > ThresholdValue(<<"2","0">>)
    /\ Cell(r, W_roe).n > 10

\* AND, OR or NOT in some letter case
IsConnective(w) ==
    \/ Len(w) = 3 /\ w[1] \in {"a", "A"} /\ w[2] \in {"n", "N"} /\ w[3] \in {"d", "D"}
    \/ Len(w) = 2 /\ w[1] \in {"o", "O"} /\ w[2] \in {"r", "R"}
    \/ Len(w) = 3 /\ w[1] \in {"n", "N"} /\ w[2] \in {"o", "O"} /\ w[3] \in {"t", "T"}

\* C26: the connectives are recognised in every letter case: a connective is
\* never reported as an invalid column, and pe > 20 and roe > 0.1 written
\* with and or with And returns the rows in which both comparisons hold, as
\* it does with AND.
C26_CaseInsensitive ==
    Finished =>
        /\ (outcome.k = "raise" /\ outcome.e.what = "invalid_columns") =>
              \A k \in DOMAIN outcome.e.cols : ~IsConnective(outcome.e.cols[k])
        /\ (given.cond \in {CondLower, CondMixed} /\ NumericColumns) =>
              ResultIsRows(SelectSeq(Positions, AboveBoth))

\* ------------------------------------------------------------------------
\* stock_server_lite.py, stock_server_full.py: get_single_stock_info and
\* _load_index_daily_with_fallback
\*
\* The provider of the data is outside the program: what it answers to a
\* request is chosen freely at every request.  A condition is passed by its
\* kind: none (None), empty (the empty string), good (a condition that
\* apply_filters_for_data_frame evaluates) or bad (one with a syntax error
\* or a column that does not exist, for which apply_filters_for_data_frame
\* raises ValueError).
\* ------------------------------------------------------------------------

\* the largest value of the parameter retry
MaxRetry == 3

Retries == (0 - 1)..MaxRetry

ConditionKinds == {"none", "empty", "good", "bad"}

\* a variant of the loop that makes one attempt more
OneMore(made, n) == made <= n

\* for _ in range(retry): there is one more iteration after made iterations
HasNext(made, n) == made < n

\* what one iteration of the loop of get_single_stock_info does when the
\* provider answers (fetched) or raises: the value it returns, or the
\* exception the handler of line 437 catches
AttemptEnds(fetched, cond) ==
    IF ~fetched THEN "fetch_raised"
    ELSE IF cond \in {"none", "empty"} THEN "head"
    ELSE IF cond = "good" THEN "filtered"
    ELSE "filter_raised"

Completes(end) == end \in {"head", "filtered"}

ReturnValue(v) == [k |-> "return", v |-> v]

RaiseError(e) == [k |-> "raise", e |-> e]

\* lines 346-439: one iteration of the loop
Attempt ==
    /\ tool = "single"
    /\ tpc = "loop"
    /\ HasNext(Len(tried), retry)
    /\ \E fetched \in BOOLEAN :
          /\ tried' = Append(tried, AttemptEnds(fetched, condition))
          /\ IF Completes(AttemptEnds(fetched, condition))
             THEN /\ tout' = ReturnValue(AttemptEnds(fetched, condition))
                  /\ tpc' = "done"
             ELSE UNCHANGED <<tout, tpc>>
    /\ UNCHANGED <<callVars, statsVars, tool, retry, condition, code, last_err>>

\* line 346: the loop has ended and the function returns without a value
Exhausted ==
    /\ tool = "single"
    /\ tpc = "loop"
    /\ ~HasNext(Len(tried), retry)
    /\ tout' = ReturnValue("None")
    /\ tpc' = "done"
    /\ UNCHANGED <<callVars, statsVars, tool, retry, condition, code, tried, last_err>>

\* line 603: code.startswith(("sh", "sz"))
StartsWithMarket(c) ==
    Len(c) >= 2 /\ SubSeq(c, 1, 2) \in { <<"s","h">>, <<"s","z">> }

\* a variant that always tries the three candidates
ThreeCandidates(c) == <<c, <<"s","h">> \o c, <<"s","z">> \o c>>

\* lines 602-606
Candidates(c) ==
    IF StartsWithMarket(c) THEN <<c>>
    ELSE <<c, <<"s","h">> \o c, <<"s","z">> \o c>>

\* what the provider answers for a candidate: it raises, or it returns None,
\* a frame without rows, a frame with a column date, a frame with the
\* column names of the provider in Chinese, or a frame with neither
Answers == {"raise", "none", "empty", "dated", "chinese", "undated"}

\* lines 611-618: the frame the loop returns for an answer, absent when the
\* loop goes on; the rename of line 614 makes the column date of a frame
\* with the Chinese names
Yields(answer) == answer \in {"dated", "chinese"}

Codes == { <<"0","0","1">>, <<"s","h","0","0","1">>, <<"s","z","3","9","9">>,
           <<"s">>, <<"S","H","1">> }

EmptyDaily == [from |-> <<>>, answer |-> "empty_frame"]

\* lines 608-621: one candidate
TryCandidate ==
    /\ tool = "index"
    /\ tpc = "loop"
    /\ Len(tried) < Len(Candidates(code))
    /\ \E answer \in Answers :
          LET c == Candidates(code)[Len(tried) + 1]
          IN  /\ tried' = Append(tried, [c |-> c, answer |-> answer])
              /\ last_err' = IF answer = "raise" THEN Len(tried) + 1 ELSE last_err
              /\ IF Yields(answer)
                 THEN /\ tout' = ReturnValue([from |-> c, answer |-> answer])
                      /\ tpc' = "done"
                 ELSE UNCHANGED <<tout, tpc>>
    /\ UNCHANGED <<callVars, statsVars, tool, retry, condition, code>>

\* lines 622-624: no candidate is left
NoneLeft ==
    /\ tool = "index"
    /\ tpc = "loop"
    /\ Len(tried) >= Len(Candidates(code))
    /\ tout' = IF last_err /= 0 THEN RaiseError(last_err) ELSE ReturnValue(EmptyDaily)
    /\ tpc' = "done"
    /\ UNCHANGED <<callVars, statsVars, tool, retry, condition, code, tried, last_err>>

InitTools ==
    /\ CallIdle
    /\ StatsIdle
    /\ \/ /\ tool = "single"
          /\ retry \in Retries
          /\ condition \in ConditionKinds
          /\ code = <<>>
       \/ /\ tool = "index"
          /\ retry = 0
          /\ condition = "none"
          /\ code \in Codes
    /\ tried = <<>>
    /\ last_err = 0
    /\ tout = [k |-> "none"]
    /\ tpc = "loop"

NextTools ==
    \/ Attempt
    \/ Exhausted
    \/ TryCandidate
    \/ NoneLeft

SpecTools == InitTools /\ [][NextTools]_vars

\* ------------------------------------------------------------------------
\* Properties of get_single_stock_info
\* ------------------------------------------------------------------------

SingleDone == tool = "single" /\ tpc = "done"

\* C23: when the condition has a syntax error or refers to a column that
\* does not exist, the call of get_single_stock_info ends by raising
\* ValueError to its caller.
C23_BadConditionRaises ==
    (SingleDone /\ condition = "bad") => tout = RaiseError("ValueError")

\* the number of attempts the parameter retry allows
Allowed == IF retry > 0 THEN retry ELSE 0

IndexDone == tool = "index" /\ tpc = "done"

\* the candidates in the order the function has to try them
Expected ==
    IF Len(code) >= 2 /\ code[1] = "s" /\ code[2] \in {"h", "z"}
    THEN <<code>>
    ELSE <<code, <<"s","h">> \o code, <<"s","z">> \o code>>

\* attempt i got a frame with rows and a date column
Yielded(i) == tried[i].answer \in {"dated", "chinese"}

\* C30: the candidates are tried in the order [code] when code starts with
\* sh or sz, else [code, sh + code, sz + code]; the function returns the
\* result of the first candidate that yields a non-empty frame with a date
\* column and tries no later candidate; it raises only when no candidate
\* yielded such a frame and at least one candidate raised, and then the
\* error is that of the last candidate that raised; otherwise it returns an
\* empty frame with the columns date, open, high, low, close, volume.
C30_Fallback ==
    tool = "index" =>
        /\ Len(tried) <= Len(Expected)
        /\ \A i \in DOMAIN tried : tried[i].c = Expected[i]
        /\ \A i \in DOMAIN tried :
              Yielded(i) =>
                  /\ i = Len(tried)
                  /\ tpc = "done"
                  /\ tout = [k |-> "return",
                             v |-> [from |-> Expected[i], answer |-> tried[i].answer]]
        /\ (tpc = "done" /\ \A i \in DOMAIN tried : ~Yielded(i)) =>
              /\ Len(tried) = Len(Expected)
              /\ IF \E i \in DOMAIN tried : tried[i].answer = "raise"
                 THEN /\ tout.k = "raise"
                      /\ tried[tout.e].answer = "raise"
                      /\ \A j \in (tout.e + 1)..Len(tried) : tried[j].answer /= "raise"
                 ELSE tout = [k |-> "return", v |-> EmptyDaily]

\* for the code 001 the first candidate raised, the second gave a frame
\* without rows, and the frame of the third, sz001, was returned
C30_Example ==
    /\ IndexDone
    /\ code = <<"0","0","1">>
    /\ Len(tried) = 3
    /\ tried[1].answer = "raise"
    /\ tried[2].answer = "empty"
    /\ tried[3] = [c |-> <<"s","z","0","0","1">>, answer |-> "chinese"]
    /\ tout = [k |-> "return", v |-> [from |-> <<"s","z","0","0","1">>, answer |-> "chinese"]]

\* ------------------------------------------------------------------------
\* Calls at the same time: a caller filters a dataset with
\* apply_filters_for_data_frame, a second caller passes the same DataFrame
\* object with no condition, and a third caller runs one of the two
\* statistics on a dataset of its own.  The steps of the three calls are
\* interleaved in every order.
\* ------------------------------------------------------------------------

\* pe > 20 AND roe >= 0.15
CondBoth == Two(W_pe, <<">">>, <<"2","0">>, W_roe, <<">","=">>, <<"0",".","1","5">>)

ConcurrentConds == {CondNone, CondBoth, CondFoo}

ConcurrentColumns ==
    { Dated(RunThen(MaxRun, 1, 1000)),
      Dated(<<Num(1), Num(2), Num(3), Num(1000)>>),
      Shaped("nan_mid", MaxLen - 1) }

\* lines 58-59 for the second caller: return df.copy()
PeerCopy ==
    /\ ~peer.made
    /\ peer' = [made |-> TRUE,
                frame |-> CopyOf(frames, 1).frames[CopyOf(frames, 1).id],
                at |-> pc]
    /\ UNCHANGED <<toolVars, statsVars, given, frames, df, pc, col, order, text,
                   outcome, log, prior>>

InitConcurrent ==
    /\ given \in [frame : {FrameText}, cond : ConcurrentConds]
    /\ frames = <<given.frame>>
    /\ df = 1
    /\ pc = "start"
    /\ col = 0
    /\ order = <<>>
    /\ text = <<>>
    /\ outcome = Pending
    /\ log = <<>>
    /\ prior = NoPrior
    /\ peer = NoPeer
    /\ ToolsIdle
    /\ sgiven \in ConcurrentColumns
    /\ fn \in {"3delta", "percentile"}
    /\ window = IF fn = "percentile" THEN DefaultWindow ELSE 0
    /\ sdf = sgiven
    /\ pct = <<>>
    /\ at = 0
    /\ spc = "call"

NextConcurrent ==
    \/ PeerCopy
    \/ ReturnCopy
    \/ CopyFrame
    \/ CoerceNext
    \/ CoerceDone
    \/ Validate
    \/ QuoteColumns
    \/ Membership
    \/ Rewrite
    \/ DryRun
    \/ RunQuery
    \/ FilterAbnormal
    \/ Prepare
    \/ RollNext
    \/ RollEnd
    \/ FillMissing
    \/ ResetIndex

SpecConcurrent == InitConcurrent /\ [][NextConcurrent]_vars

\* what the call of the first caller gives when it runs alone
AloneFiltered ==
    IF given.cond = CondNone
    THEN Returned /\ Result = given.frame
    ELSE IF given.cond = CondBoth
    THEN /\ Returned
         /\ Result.index = <<0>>
         /\ Result.rows = << <<IntCell(25), FloatCell(20)>> >>
    ELSE /\ outcome.k = "raise"
         /\ outcome.type = "ValueError"
         /\ outcome.e.what = "invalid_columns"
         /\ outcome.e.cols = << <<"f","o","o">> >>

\* C24: calls made at the same time for different callers are independent:
\* under every interleaving of their steps each call gives the result it
\* gives when it runs alone on the same inputs: the filter its rows or its
\* error, the second caller a copy of the dataset as it was passed, the
\* outlier filter and the percentile what they compute from their own rows.
C24_Independent ==
    /\ (Finished /\ given.frame = FrameText /\ given.cond \in ConcurrentConds)
            => AloneFiltered
    /\ peer.made => peer.frame = given.frame
    /\ Filtered => sdf = filter_abnormal_3delta(sgiven)
    /\ Ranked =>
          /\ sdf = Cleaned(sgiven)
          /\ pct = Percentiles(Cleaned(sgiven), window)

\* the second caller made its call after the first call had converted its
\* columns and before it returned its row, while the percentile was being
\* rolled; all three calls have ended
C24_Example ==
    /\ Finished
    /\ given.cond = CondBoth
    /\ Returned
    /\ Len(Result.rows) = 1
    /\ peer.made
    /\ peer.at = "dryrun"
    /\ peer.frame = FrameText
    /\ Ranked
    /\ \A i \in DOMAIN pct : IsNumCell(pct[i])

====
